---- MODULE Spec2Model ----
(***************************************************************************)
(* A model of the modelscore scripts: the tab-allocating Excel exporter    *)
(* (src/src/excel_manager.py), the rate-limited fetcher and the JSON       *)
(* flattener (src/src/gh_sec2.py), the CSV driver (src/src/main.py) and    *)
(* the per-model processor of the spreadsheet pipeline                     *)
(* (src/src/model_processor.py).                                           *)
(*                                                                         *)
(* Text that the code cuts, scans or replaces character by character (tab  *)
(* names) is a sequence of one-character strings; text that the code only  *)
(* concatenates (flattened paths) is a TLA+ string.                        *)
(***************************************************************************)
EXTENDS Integers, Sequences, FiniteSets, TLC

VARIABLES
    \* ExcelManager (excel_manager.py)
    worksheets,     \* self.workbook.worksheets: sequence of [title, rows]
    file_path,      \* self.file_path, set by __init__
    lastSave,       \* the last save(): [write, ret], ret what save() ended with
    calls,          \* the names requested by the tab-creating calls made so far
    lastCall,       \* the last of them with its arguments: [op, tab_name, data, headers, before]
    \* _sanitize_tab_name applied to a name, and again to its result
    snName, snOnce, snTwice,
    snpc,           \* "idle" | "input" | "once" | "twice"
    \* the mapping parsers (main.py read_model_list; archive parse_model_mapping)
    mapFile,        \* the lines of the mapping file
    parsedMain,     \* read_model_list's result
    parsedArchive,  \* parse_model_mapping's result
    ppc,            \* "idle" | "input" | "main" | "both"
    \* _req / safe_get_json (gh_sec2.py)
    fpc,            \* position of the call: "idle", "loop", "sleep", "resp", "done", "raised"
    attempt,        \* iterations of `for _ in range(3)` begun so far
    requests,       \* SESSION.request calls issued
    clock,          \* int(time.time())
    resp,           \* the last response received (NoResp before the first)
    firstResp,      \* the first response received by this call
    sleeps,         \* [n, total, at, hdr, slept]: the time.sleep calls so far and the last one
    result,         \* safe_get_json's return value (NoResult until it returns)
    \* _flatten (gh_sec2.py)
    flPrefix,       \* the prefix argument
    flA, flB,       \* two JSON values
    flOutA, flOutB, \* list(_flatten(flPrefix, flA)), list(_flatten(flPrefix, flB))
    flpc,           \* "input" | "one" | "both"
    \* drivers (main.py; the spreadsheet pipeline around model_processor.py)
    models,         \* the parsed mapping entries
    idx,            \* index of the entry the loop is at (1-based)
    dpc,            \* "start" | "loop" (main.py) | "ploop" (pipeline) | "done" | "exited"
    runlog,         \* one record per entry whose processing was begun
    saveAttempts,   \* calls of ExcelManager.save() made by the pipeline
    \* the security reports (gh_sec2.py collect; archive generate_security_checklist)
    ghWorld,        \* how the code-hosting API answers
    collectOut,     \* collect's outcome: [ended, rows]
    checklistOut,   \* generate_security_checklist's outcome: [ended, rows]
    secpc,          \* "idle" | "input" | "collected" | "both"
    \* get_citation_count (arxiv_citations.py)
    citWorld,       \* the reference given and how each provider answers
    citQueries,     \* the providers queried so far, in order
    citResult,      \* the (count, source) returned (NoCitation before)
    cpc,            \* "idle" | "start" | "ss" | "oa" | "doi" | "oad" | "done" | "raised"
    \* query_all_models (archive-model_scoring_query.py)
    model_mappings,       \* the argument, each entry with how its queries answer
    huggingface_results,  \* the first list being built
    github_results,       \* the second list being built
    qpc                   \* "idle" | "loop" | "returned"

xlVars    == <<worksheets, file_path, lastSave, calls, lastCall>>
sanVars   == <<snName, snOnce, snTwice, snpc>>
parseVars == <<mapFile, parsedMain, parsedArchive, ppc>>
fetchVars == <<fpc, attempt, requests, clock, resp, firstResp, sleeps, result>>
flatVars  == <<flPrefix, flA, flB, flOutA, flOutB, flpc>>
drvVars   == <<models, idx, dpc, runlog, saveAttempts>>
secVars   == <<ghWorld, collectOut, checklistOut, secpc>>
citVars   == <<citWorld, citQueries, citResult, cpc>>
qaVars    == <<model_mappings, huggingface_results, github_results, qpc>>
vars      == <<xlVars, fetchVars, flatVars, drvVars, sanVars, parseVars, secVars, citVars, qaVars>>

\* what the actions of one component leave alone
ExcelFrame    == UNCHANGED <<fetchVars, flatVars, drvVars, sanVars, parseVars, secVars, citVars, qaVars>>
FetchFrame    == UNCHANGED <<xlVars, flatVars, drvVars, sanVars, parseVars, secVars, citVars, qaVars>>
FlatFrame     == UNCHANGED <<xlVars, fetchVars, drvVars, sanVars, parseVars, secVars, citVars, qaVars>>
MainFrame     == UNCHANGED <<xlVars, fetchVars, flatVars, sanVars, parseVars, secVars, citVars, qaVars>>
PipelineFrame == UNCHANGED <<fetchVars, flatVars, sanVars, parseVars, secVars, citVars, qaVars>>
SanFrame      == UNCHANGED <<xlVars, fetchVars, flatVars, drvVars, parseVars, secVars, citVars, qaVars>>
ParseFrame    == UNCHANGED <<xlVars, fetchVars, flatVars, drvVars, sanVars, secVars, citVars, qaVars>>
SecFrame      == UNCHANGED <<xlVars, fetchVars, flatVars, drvVars, sanVars, parseVars, citVars, qaVars>>
CitFrame      == UNCHANGED <<xlVars, fetchVars, flatVars, drvVars, sanVars, parseVars, secVars, qaVars>>
QueryFrame    == UNCHANGED <<xlVars, fetchVars, flatVars, drvVars, sanVars, parseVars, secVars, citVars>>

-----------------------------------------------------------------------------
(* Python values.                                                          *)

PStr(s)  == [t |-> "str", v |-> s]
PInt(n)  == [t |-> "int", v |-> n]
PBool(b) == [t |-> "bool", v |-> b]
Null    == [t |-> "null"]
NaN     == [t |-> "nan"]

\* str(val) for the scalars (gh_sec2.py _to_str; excel_manager.py str(value))
PyStr(val) ==
    CASE val.t = "str"  -> val.v
      [] val.t = "int"  -> ToString(val.v)
      [] val.t = "bool" -> (IF val.v THEN "True" ELSE "False")
      [] val.t = "null" -> "None"
      [] val.t = "nan"  -> "nan"

Rep(c, n) == [i \in 1..n |-> c]

\* the decimal digits of a natural number, as characters
RECURSIVE Digits(_)
Digits(n) ==
    IF n < 10 THEN <<ToString(n)>> ELSE Digits(n \div 10) \o <<ToString(n % 10)>>

Range(s) == {s[i] : i \in 1..Len(s)}

-----------------------------------------------------------------------------
(* ExcelManager                                                            *)

MaxTitleLen == 31

InvalidChars == {"/", "\\", "?", "*", "[", "]"}

DefaultTitle == <<"S", "h", "e", "e", "t">>

ReplaceInvalid(name) ==
    [i \in 1..Len(name) |-> IF name[i] \in InvalidChars THEN "_" ELSE name[i]]

\* a cut that keeps one character too many (sanitized[:32])
TruncateOneMore(s) == IF Len(s) > MaxTitleLen THEN SubSeq(s, 1, MaxTitleLen + 1) ELSE s

Truncate(s) == IF Len(s) > MaxTitleLen THEN SubSeq(s, 1, MaxTitleLen) ELSE s

_sanitize_tab_name(name) ==
    LET sanitized == Truncate(ReplaceInvalid(name))
    IN  IF sanitized = <<>> THEN DefaultTitle ELSE sanitized

Titles(ws) == {ws[i].title : i \in 1..Len(ws)}

\* a collision answered by one suffix attempt, without the loop
ResolveCollisionOnce(original_name, candidate, counter, titles) ==
    IF candidate \in titles
    THEN original_name \o <<"_">> \o Digits(counter)
    ELSE candidate

\* the while loop of create_tab: append _1, _2, ... to the sanitized name
\* until the title is not one of the workbook's
RECURSIVE ResolveCollision(_, _, _, _)
ResolveCollision(original_name, candidate, counter, titles) ==
    IF candidate \in titles
    THEN ResolveCollision(original_name,
                          original_name \o <<"_">> \o Digits(counter),
                          counter + 1, titles)
    ELSE candidate

AllocateTitle(tab_name, ws) ==
    LET sanitized == _sanitize_tab_name(tab_name)
    IN  ResolveCollision(sanitized, sanitized, 1, Titles(ws))

\* a row dict is a sequence of <<key, value>> pairs in insertion order
Keys(d) == [i \in 1..Len(d) |-> d[i][1]]

HasKey(d, k) == \E i \in 1..Len(d) : d[i][1] = k

Get(d, k) == d[CHOOSE i \in 1..Len(d) : d[i][1] = k][2]

\* s followed by the elements of t that s lacks, in t's order
RECURSIVE AppendNew(_, _)
AppendNew(s, t) ==
    IF t = <<>> THEN s
    ELSE AppendNew(IF Head(t) \in Range(s) THEN s ELSE Append(s, Head(t)), Tail(t))

\* columns taken from the first row only
ColumnsOfFirstRow(data) == IF data = <<>> THEN <<>> ELSE Keys(Head(data))

\* pd.DataFrame(data).columns: the keys of all rows in order of first appearance
RECURSIVE Columns(_)
Columns(data) ==
    IF data = <<>> THEN <<>>
    ELSE AppendNew(Keys(Head(data)), Columns(Tail(data)))

\* list(row) for one row of the DataFrame: a missing key reads as NaN
FrameRow(d, cols) ==
    [j \in 1..Len(cols) |-> IF HasKey(d, cols[j]) THEN Get(d, cols[j]) ELSE NaN]

HeaderRow(data, headers) ==
    LET names == IF headers # <<>> THEN headers ELSE Columns(data)
    IN  [j \in 1..Len(names) |-> PStr(names[j])]

\* rows written with the header appended before the emptiness test
SheetRowsHeaderFirst(data, headers) ==
    IF data = <<>>
    THEN (IF headers # <<>> THEN <<HeaderRow(data, headers)>> ELSE <<>>)
    ELSE <<HeaderRow(data, headers)>>
         \o [i \in 1..Len(data) |-> FrameRow(data[i], Columns(data))]

SheetRows(data, headers) ==
    IF data = <<>> THEN <<>>
    ELSE <<HeaderRow(data, headers)>>
         \o [i \in 1..Len(data) |-> FrameRow(data[i], Columns(data))]

\* a create_tab that puts the new sheet first (create_sheet(title, 0))
create_tab_InsertsFirst(ws, tab_name, data, headers) ==
    <<[title |-> AllocateTitle(tab_name, ws), rows |-> SheetRows(data, headers)]>> \o ws

\* create_tab: the workbook after the call
create_tab(ws, tab_name, data, headers) ==
    Append(ws, [title |-> AllocateTitle(tab_name, ws),
                rows  |-> SheetRows(data, headers)])

\* the rows built without str(value)
KeyValueRowsRaw(d) ==
    [i \in 1..Len(d) |-> << <<"Key", PStr(d[i][1])>>, <<"Value", d[i][2]>> >>]

KeyValueRows(d) ==
    [i \in 1..Len(d) |-> << <<"Key", PStr(d[i][1])>>, <<"Value", PStr(PyStr(d[i][2]))>> >>]

create_tab_from_key_value_pairs(ws, tab_name, d) ==
    create_tab(ws, tab_name, KeyValueRows(d), <<"Key", "Value">>)

create_tab_from_csv_data(ws, tab_name, data) ==
    create_tab(ws, tab_name, data, <<>>)

\* inputs
MaxTabs == 3

\* a name of exactly 31 characters, free of invalid characters
LongName == <<"_">> \o Rep("x", MaxTitleLen - 1)

\* the empty name, "Sheet", "Sheet_1", LongName, and a name of 32 characters
\* that starts with '/' and is LongName once sanitized
NameInputs ==
    { <<>>, DefaultTitle, DefaultTitle \o <<"_", "1">>,
      LongName, <<"/">> \o Rep("x", MaxTitleLen) }

DataInputs ==
    { <<>>,
      << << <<"Key", PStr("k")>>, <<"Value", PInt(1)>> >>,
         << <<"Key", PStr("j")>>, <<"Extra", Null>> >> >> }

HeaderInputs == { <<>>, <<"Key", "Value">> }

DictInputs == { <<>>, << <<"id", PStr("m")>>, <<"downloads", PInt(7)>> >> }

-----------------------------------------------------------------------------
(* _req and safe_get_json (gh_sec2.py)                                     *)

\* a loop that would run one iteration too many (range(4))
MaxAttemptsOffByOne == 3 + 1

\* for _ in range(3)
MaxAttempts == 3

MaxSleep == 60

\* a response header: absent, or present with a text or an integer text
Absent  == [k |-> "absent"]
Text(s) == [k |-> "text", s |-> s]
Num(n)  == [k |-> "int", n |-> n]

NoResp   == [k |-> "noresp"]
NoResult == [k |-> "noresult"]

\* resp.status_code == 403 and resp.headers.get("X-RateLimit-Remaining") == "0"
IsRateLimited(r) == r.status = 403 /\ r.remaining = Text("0")

\* int(resp.headers.get("X-RateLimit-Reset", "0") or 0)
ResetEpoch(r) == IF r.reset.k = "int" THEN r.reset.n ELSE 0

Max(a, b) == IF a >= b THEN a ELSE b
Min(a, b) == IF a <= b THEN a ELSE b

\* sleep_for = max(0, reset_epoch - int(time.time()) + 1)
SleepFor(reset_epoch, now) == Max(0, reset_epoch - now + 1)

\* the sleep argument without the min(..., 60) clamp
SleepArgNoClamp(r, now) == SleepFor(ResetEpoch(r), now)

\* the argument of time.sleep: min(sleep_for, 60)
SleepArg(r, now) == Min(SleepFor(ResetEpoch(r), now), MaxSleep)

\* resp.raise_for_status() raises HTTPError for a 4xx or 5xx status
RaisesForStatus(r) == r.status >= 400 /\ r.status < 600

\* str(e) of the HTTPError
HTTPErrorText == "HTTPError"

\* msg = j.get("message") if isinstance(j, dict) else str(e), where j is the
\* JSON body, or {"message": resp.text} when the body is not JSON
ErrorMessage(r) ==
    CASE r.body.json = "none" -> PStr(r.body.text)
      [] r.body.json = "dict" -> (IF r.body.hasMessage THEN PStr(r.body.message) ELSE Null)
      [] r.body.json = "list" -> PStr(HTTPErrorText)

\* a safe_get_json that lets the HTTPError of a rate-limit response escape
SafeGetJsonOutcomeReraises(r) ==
    IF IsRateLimited(r) THEN [k |-> "raised", exc |-> "HTTPError"]
    ELSE IF RaisesForStatus(r)
    THEN [k |-> "returned", json |-> "none", code |-> r.status, msg |-> ErrorMessage(r)]
    ELSE [k |-> "returned", json |-> r.body.json, code |-> r.status, msg |-> Null]

\* safe_get_json after _req returned r: the triple, or the exception that
\* resp.json() raises for a body that is not JSON on the success path
SafeGetJsonOutcome(r) ==
    IF RaisesForStatus(r)
    THEN [k |-> "returned", json |-> "none", code |-> r.status, msg |-> ErrorMessage(r)]
    ELSE IF r.body.json = "none"
         THEN [k |-> "raised", exc |-> "JSONDecodeError"]
         ELSE [k |-> "returned", json |-> r.body.json, code |-> r.status, msg |-> Null]

\* inputs: what the server may answer at time `now`
Statuses == {200, 403, 404, 429}

RemainingInputs == {Absent, Text("0"), Text("57")}

ResetOffsets == {-10, 5, 500}

ResetInputs(now) == {Absent, Text("")} \cup {Num(now + d) : d \in ResetOffsets}

BodyInputs ==
    { [json |-> "dict", hasMessage |-> TRUE,  message |-> "Not Found", text |-> "{message}"],
      [json |-> "dict", hasMessage |-> FALSE, message |-> "",          text |-> "{error}"],
      [json |-> "list", hasMessage |-> FALSE, message |-> "",          text |-> "[]"],
      [json |-> "none", hasMessage |-> FALSE, message |-> "",          text |-> "<html>"] }

Responses(now) ==
    [status : Statuses, remaining : RemainingInputs, reset : ResetInputs(now),
     body : BodyInputs]

StartTimes == {1000, 2000}

\* safe_get_json(url) is called: _req enters its loop
FetchCall ==
    /\ fpc = "idle"
    /\ fpc' = "loop"
    /\ attempt' = 0
    /\ UNCHANGED <<requests, clock, resp, firstResp, sleeps, result>>
    /\ FetchFrame

\* resp = SESSION.request(...): the transport fails and the exception leaves
\* _req and safe_get_json (neither catches it)
RequestFails ==
    /\ fpc = "loop"
    /\ requests' = requests + 1
    /\ fpc' = "raised"
    /\ result' = [k |-> "raised", exc |-> "ConnectionError"]
    /\ UNCHANGED <<attempt, clock, resp, firstResp, sleeps>>
    /\ FetchFrame

\* resp = SESSION.request(...) answers; the rate-limit test decides between
\* the backoff and `return resp`
RequestAnswered ==
    /\ fpc = "loop"
    /\ \E r \in Responses(clock) :
        /\ resp' = r
        /\ firstResp' = IF requests = 0 THEN r ELSE firstResp
        /\ fpc' = IF IsRateLimited(r) THEN "sleep" ELSE "resp"
    /\ requests' = requests + 1
    /\ UNCHANGED <<attempt, clock, sleeps, result>>
    /\ FetchFrame

\* time.sleep(min(sleep_for, 60)); continue.  After the third iteration the
\* loop is over and the trailing `return resp` returns the last response.
Backoff ==
    /\ fpc = "sleep"
    /\ LET slept == SleepArg(resp, clock)
       IN  /\ sleeps' = [n |-> sleeps.n + 1, total |-> sleeps.total + slept,
                         at |-> clock, hdr |-> resp.reset, slept |-> slept]
           /\ clock' = clock + slept
    /\ attempt' = attempt + 1
    /\ fpc' = IF attempt + 1 < MaxAttempts THEN "loop" ELSE "resp"
    /\ UNCHANGED <<requests, resp, firstResp, result>>
    /\ FetchFrame

\* _req has returned resp; safe_get_json builds its triple
SafeGetJsonReturn ==
    /\ fpc = "resp"
    /\ result' = SafeGetJsonOutcome(resp)
    /\ fpc' = IF SafeGetJsonOutcome(resp).k = "returned" THEN "done" ELSE "raised"
    /\ UNCHANGED <<attempt, requests, clock, resp, firstResp, sleeps>>
    /\ FetchFrame

FetchNext == FetchCall \/ RequestFails \/ RequestAnswered \/ Backoff \/ SafeGetJsonReturn

NoSleep == [n |-> 0, total |-> 0, at |-> 0, hdr |-> Absent, slept |-> 0]

FetchIdle ==
    /\ fpc = "idle" /\ attempt = 0 /\ requests = 0 /\ resp = NoResp
    /\ firstResp = NoResp /\ sleeps = NoSleep /\ result = NoResult

-----------------------------------------------------------------------------
(* _flatten (gh_sec2.py)                                                   *)

\* JSON composites: a dict is a sequence of <<key, value>> pairs in the
\* dict's own (insertion) order, a list a sequence of values
JDict(items) == [t |-> "dict", items |-> items]
JList(items) == [t |-> "list", items |-> items]

IsScalar(obj) == obj.t \notin {"dict", "list"}

\* _to_str: str(val) for None, str, int, float and bool
_to_str(val) == PyStr(val)

\* a prefix that puts the '.' before the first key as well
DictPrefixAlwaysDot(prefix, k) == prefix \o "." \o k

\* new_prefix = f"{prefix}.{k}" if prefix else str(k)
DictPrefix(prefix, k) == IF prefix # "" THEN prefix \o "." \o k ELSE k

\* new_prefix = f"{prefix}[{i}]" if prefix else f"[{i}]"
ListPrefix(prefix, i) ==
    IF prefix # "" THEN prefix \o "[" \o ToString(i) \o "]"
    ELSE "[" \o ToString(i) \o "]"

\* the order in which the items of a dict or list are visited: obj.items()
\* and enumerate(obj) follow the container's own order
VisitOrder(items) == [i \in 1..Len(items) |-> i]

RECURSIVE _flatten(_, _), FlattenItems(_, _, _)
\* list(_flatten(prefix, obj)): the pairs in the order they are yielded
_flatten(prefix, obj) ==
    IF IsScalar(obj) THEN << <<prefix, _to_str(obj)>> >>
    ELSE FlattenItems(prefix, obj, VisitOrder(obj.items))

\* the for loop over the items whose positions are listed in `order`
FlattenItems(prefix, obj, order) ==
    IF order = <<>> THEN <<>>
    ELSE LET i == Head(order)
             first == IF obj.t = "dict"
                      THEN _flatten(DictPrefix(prefix, obj.items[i][1]), obj.items[i][2])
                      ELSE _flatten(ListPrefix(prefix, i - 1), obj.items[i])
         IN  first \o FlattenItems(prefix, obj, Tail(order))

\* inputs: the JSON values of at most MaxNodes nodes (a node is a scalar, a
\* dict or a list) over a few scalars and keys
MaxNodes == 4

MaxPairNodes == 3

ScalarInputs == {PStr("1"), PInt(1), Null}

KeyInputs == {"", "a", "a.a", "a[0]"}

PrefixInputs == {"", "repo"}

Injective(f) == \A i, j \in DOMAIN f : f[i] = f[j] => i = j

KeySeqs(n) == {ks \in [1..n -> KeyInputs] : Injective(ks)}

\* the non-empty sequences of n nodes in all, built from tab[m], the values
\* of exactly m nodes
RECURSIVE SeqsOfSize(_, _)
SeqsOfSize(tab, n) ==
    UNION {{<<v>> \o rest : v \in tab[m],
                            rest \in IF m = n THEN {<<>>} ELSE SeqsOfSize(tab, n - m)}
           : m \in 1..n}

\* the values of exactly n nodes, n > 1: a list or a dict around a sequence
ValsOfSize(tab, n) ==
    LET children == SeqsOfSize(tab, n - 1)
    IN  {JList(c) : c \in children}
        \cup UNION {{JDict([i \in 1..l |-> <<ks[i], c[i]>>])
                       : c \in {x \in children : Len(x) = l}, ks \in KeySeqs(l)}
                    : l \in 1..(n - 1)}

RECURSIVE ValsTable(_, _)
ValsTable(tab, n) ==
    IF Len(tab) >= n THEN tab
    ELSE ValsTable(Append(tab, ValsOfSize(tab, Len(tab) + 1)), n)

\* the values of one node: the scalars, {} and []
Leaves == ScalarInputs \cup {JDict(<<>>), JList(<<>>)}

\* v is a value of at most n nodes
IsInput(v, n) ==
    LET tab == ValsTable(<<Leaves>>, n - 1)
    IN  \/ v \in Leaves
        \/ \E m \in 1..(n - 1) : \E c \in SeqsOfSize(tab, m) :
             \/ v = JList(c)
             \/ \E ks \in KeySeqs(Len(c)) : v = JDict([i \in 1..Len(c) |-> <<ks[i], c[i]>>])

NoOutput == <<>>

\* list(_flatten(flPrefix, flA)) is computed
FlattenA ==
    /\ flpc = "input"
    /\ flOutA' = _flatten(flPrefix, flA)
    /\ flpc' = "one"
    /\ UNCHANGED <<flPrefix, flA, flB, flOutB>>
    /\ FlatFrame

\* list(_flatten(flPrefix, flB)) is computed
FlattenB ==
    /\ flpc = "one"
    /\ flOutB' = _flatten(flPrefix, flB)
    /\ flpc' = "both"
    /\ UNCHANGED <<flPrefix, flA, flB, flOutA>>
    /\ FlatFrame

FlatIdle ==
    /\ flpc = "idle" /\ flPrefix = "" /\ flA = Null /\ flB = Null
    /\ flOutA = NoOutput /\ flOutB = NoOutput

-----------------------------------------------------------------------------
(* collect (gh_sec2.py), as its callers see it                             *)

\* What one call of collect(owner, repo) ends with, given how the repository
\* core fetch and the later fetches go.  repo: "ok" | "api_error" (safe_get_json
\* returned (None, code, err), so `not repo_json` holds) | "transport" (the
\* request raised); rest: "ok" | "transport".
collect(w) ==
    CASE w.repo = "transport" -> "Exception"
      [] w.repo = "api_error" -> "SystemExit"
      [] OTHER -> (IF w.rest = "transport" THEN "Exception" ELSE "rows")

\* `except Exception` catches every exception but SystemExit (a BaseException)
CaughtByExceptException(exc) == exc = "Exception"

MaxEntries == 2

EntryInputs == { [hf |-> "o/m", gh |-> "o/r"], [hf |-> "o/m", gh |-> "norepo"] }

\* '/' in github_repo
HasSlash(gh) == gh = "o/r"

MappingInputs == UNION {[1..n -> EntryInputs] : n \in 0..MaxEntries}

-----------------------------------------------------------------------------
(* The security reports: collect (gh_sec2.py), row by row, and             *)
(* generate_security_checklist (archive-gh_sec.py)                         *)

\* bool(x) of a JSON value
IsTruthy(x) ==
    CASE x.t \in {"dict", "list"} -> x.items # <<>>
      [] x.t = "null" -> FALSE
      [] x.t = "bool" -> x.v
      [] x.t = "int"  -> x.v # 0
      [] x.t = "str"  -> x.v # ""
      [] OTHER -> TRUE

\* obj.get(key) of a dict; None for a missing key (and for the `{}` default
\* of a chained get)
JGet(obj, key) ==
    IF obj.t = "dict" /\ HasKey(obj.items, key) THEN Get(obj.items, key) ELSE Null

\* what safe_get_json returns: (json, status_code, None) for a 2xx answer,
\* (None, status_code, message) for an API error
Triple(json, code, err) == [json |-> json, code |-> code, err |-> err]

ApiError == Triple(Null, 403, PStr("Forbidden"))

\* the JSON each endpoint answers when it answers 2xx
OkJson(endpoint, ownerType) ==
    CASE endpoint = "repo" ->
             JDict(<< <<"id", PInt(1)>>,
                      <<"owner", JDict(<< <<"login", PStr("o")>>,
                                          <<"type", PStr(ownerType)>> >>)>> >>)
      [] endpoint = "orgs" ->
             JDict(<< <<"login", PStr("o")>>, <<"type", PStr("Organization")>> >>)
      [] endpoint = "users" ->
             JDict(<< <<"login", PStr("o")>>, <<"type", PStr("User")>> >>)
      [] endpoint = "topics" -> JDict(<< <<"names", JList(<<PStr("ml")>>)>> >>)
      [] endpoint = "languages" -> JDict(<< <<"Python", PInt(10)>> >>)
      [] endpoint = "members" -> JList(<<JDict(<< <<"login", PStr("u")>> >>)>>)
      [] endpoint = "protection" ->
             JDict(<< <<"required_pull_request_reviews", JDict(<< <<"count", PInt(1)>> >>)>>,
                      <<"allow_force_pushes", JDict(<< <<"enabled", PBool(FALSE)>> >>)>> >>)
      [] endpoint = "contents" ->
             JDict(<< <<"type", PStr("file")>>, <<"html_url", PStr("https://f")>> >>)
      [] endpoint = "license" ->
             JDict(<< <<"license", JDict(<< <<"spdx_id", PStr("MIT")>> >>)>> >>)
      [] endpoint = "workflows" ->
             JDict(<< <<"workflows", JList(<<JDict(<< <<"url", PStr("wf")>> >>)>>)>> >>)
      [] endpoint = "workflow_file" -> JDict(<< <<"path", PStr("ci.yml")>> >>)
      [] endpoint = "environments" ->
             JDict(<< <<"environments", JList(<<JDict(<< <<"name", PStr("prod")>> >>)>>)>> >>)
      [] endpoint = "sbom" ->
             JDict(<< <<"sbom", JDict(<< <<"packages", JList(<<PStr("p")>>)>> >>)>> >>)
      [] endpoint = "commits" ->
             JList(<<JDict(<< <<"commit",
                     JDict(<< <<"verification", JDict(<< <<"verified", PBool(TRUE)>> >>)>> >>)>> >>)>>)
      [] endpoint = "dependabot" -> JList(<<JDict(<< <<"number", PInt(1)>> >>)>>)
      [] OTHER -> JList(<<>>)

\* the endpoints that may answer with an API error in a world
FailableEndpoints ==
    {"repo", "orgs", "users", "topics", "languages", "members",
     "protection", "license", "workflows", "workflow_file", "raw", "environments",
     "sbom", "code-scanning", "secret-scanning", "dependabot", "commits",
     "collaborators"}

MaxFailed == 2

\* a world: the endpoints that answer with an API error (at most MaxFailed
\* of them), the owner type the repository names, and for each of the two
\* content searches the position of the first path that exists (0: every
\* path is answered with an API error)
\* safe_get_json(url) for the endpoint in world w
Answer(w, endpoint) ==
    IF endpoint \in w.failed THEN ApiError
    ELSE Triple(OkJson(endpoint, w.ownerType), 200, Null)

\* sep.join(names)
RECURSIVE Join(_, _)
Join(sep, names) ==
    IF names = <<>> THEN ""
    ELSE IF Len(names) = 1 THEN names[1]
    ELSE names[1] \o sep \o Join(sep, Tail(names))

\* add(scope, key, value) of collect
ScopeRow(scope, key, value) == [Scope |-> scope, Key |-> key, Value |-> value]

FlattenedRows(scope, prefix, obj) ==
    LET pairs == _flatten(prefix, obj)
    IN  [i \in 1..Len(pairs) |-> ScopeRow(scope, pairs[i][1], pairs[i][2])]

\* _owner_resource: the (json, code, err) of the owner it resolved
_owner_resource(w, owner_type_hint) ==
    IF owner_type_hint = PStr("Organization") THEN Answer(w, "orgs")
    ELSE IF IsTruthy(Answer(w, "orgs").json) THEN Answer(w, "orgs")
         ELSE Answer(w, "users")

\* collect(owner, repo): how it ended and the rows it returned
collect_rows(w) ==
    LET repo == Answer(w, "repo")
    IN  IF ~IsTruthy(repo.json) THEN [ended |-> "SystemExit", rows |-> <<>>]
        ELSE
        LET owner_type == JGet(JGet(repo.json, "owner"), "type")
            own    == _owner_resource(w, owner_type)
            isOrg  == IsTruthy(own.json) /\ JGet(own.json, "type") = PStr("Organization")
            ownerRows ==
                IF IsTruthy(own.json)
                THEN FlattenedRows("Owner/Org", "owner", own.json)
                     \o (IF ~isOrg THEN <<>>
                         ELSE IF HasKey(own.json.items, "two_factor_requirement_enabled")
                         THEN <<ScopeRow("Owner/Org", "security.two_factor_requirement_enabled",
                                  PyStr(PBool(IsTruthy(JGet(own.json,
                                                 "two_factor_requirement_enabled")))))>>
                         ELSE <<ScopeRow("Owner/Org", "security.two_factor_requirement_enabled",
                                  "unavailable - missing field (insufficient permissions?)")>>)
                ELSE <<ScopeRow("Owner/Org", "owner.fetch_error",
                                ToString(own.code) \o " " \o PyStr(own.err))>>
            topics == Answer(w, "topics")
            topicRows ==
                IF topics.json.t = "dict"
                THEN LET names == JGet(topics.json, "names")
                     IN  <<ScopeRow("Repository", "topics",
                            Join(", ", IF names.t = "list"
                                       THEN [i \in 1..Len(names.items) |-> names.items[i].v]
                                       ELSE <<>>))>>
                ELSE <<>>
            langs == Answer(w, "languages")
            langRows ==
                IF langs.json.t = "dict"
                THEN \* sorted(keys): the answers name one language
                     <<ScopeRow("Repository", "languages", Join(", ", Keys(langs.json.items)))>>
                ELSE <<>>
            members == Answer(w, "members")
            memberRows ==
                IF ~isOrg THEN <<>>
                ELSE IF members.json.t = "list"
                THEN <<ScopeRow("Owner/Org", "security.members_without_2fa_count",
                                ToString(Len(members.json.items)))>>
                ELSE <<ScopeRow("Owner/Org", "security.members_without_2fa_count",
                                "unavailable - " \o ToString(members.code) \o " "
                                \o PyStr(members.err))>>
        IN  [ended |-> "rows",
             rows  |-> FlattenedRows("Repository", "repo", repo.json)
                       \o ownerRows \o topicRows \o langRows \o memberRows]

\* add(category, insight, endpoint, value, notes, risk_level) of
\* generate_security_checklist (the "API Endpoint" column, a constant of each
\* row, is left out)
InsightRow(category, insight, value, notes, risk_level) ==
    [Category |-> category, Insight |-> insight, Value |-> value,
     Risk |-> risk_level, Notes |-> notes]

\* risk(flag, when_true, when_false) for a bool flag
risk(flag, when_true, when_false) == IF flag THEN when_true ELSE when_false

\* f"{code}: {err}"
CodeAndError(a) == ToString(a.code) \o ": " \o PyStr(a.err)

\* find_file_presence(owner, repo, paths) where the first existing path is
\* paths[first]: the paths before it are answered with an API error, whose
\* code and message are dropped; (None, None) when the loop runs out
RECURSIVE find_file_presence(_, _, _)
find_file_presence(paths, first, i) ==
    IF i > Len(paths) THEN [path |-> Null, url |-> Null]
    ELSE LET a == IF i = first THEN Triple(OkJson("contents", ""), 200, Null) ELSE ApiError
         IN  IF IsTruthy(a.json) /\ a.json.t = "dict"
                /\ JGet(a.json, "type") \in {PStr("file"), PStr("symlink")}
             THEN [path |-> PStr(paths[i]), url |-> JGet(a.json, "html_url")]
             ELSE find_file_presence(paths, first, i + 1)

\* analyze_actions_pinning for the one workflow of the answers: its file is
\* fetched, then its raw text, which holds one `uses: a/b@v1` line (a tag);
\* a failed fetch skips the workflow (no download_url to fall back to)
analyze_actions_pinning(w, workflows) ==
    IF workflows = <<>> THEN [pinned |-> 0, unpinned |-> 0]
    ELSE LET j == Answer(w, "workflow_file").json
         IN  IF ~IsTruthy(j) \/ ~HasKey(j.items, "path") THEN [pinned |-> 0, unpinned |-> 0]
             ELSE IF "raw" \in w.failed THEN [pinned |-> 0, unpinned |-> 0]
             ELSE [pinned |-> 0, unpinned |-> 1]

\* a section of the checklist that tests isinstance(json, list): a count row,
\* or the "unavailable" row
CountedAlerts(a, category, insight, fallback, when_false) ==
    IF a.json.t = "list"
    THEN <<InsightRow(category, insight, ToString(Len(a.json.items)), "",
                      risk(Len(a.json.items) = 0, "Low", when_false))>>
    ELSE <<InsightRow(category, fallback, "unavailable", CodeAndError(a), "Unknown")>>

\* generate_security_checklist(owner, repo): how it ended and its rows
generate_security_checklist(w) ==
    LET repo == Answer(w, "repo")
    IN  IF ~IsTruthy(repo.json) THEN [ended |-> "SystemExit", rows |-> <<>>]
        ELSE
        LET archived == IsTruthy(JGet(repo.json, "archived"))
            topics   == JGet(repo.json, "topics")
            meta ==
                << InsightRow("Repository Metadata", "Visibility",
                       IF IsTruthy(JGet(repo.json, "private")) THEN "private" ELSE "public",
                       "", "Informational"),
                   InsightRow("Repository Metadata", "Archived", PyStr(PBool(archived)),
                       "", risk(archived, "Low", "Informational")),
                   InsightRow("Repository Metadata", "Default branch",
                       IF HasKey(repo.json.items, "default_branch")
                       THEN PyStr(JGet(repo.json, "default_branch")) ELSE "main",
                       "", "Informational"),
                   InsightRow("Repository Metadata", "Topics",
                       IF IsTruthy(topics) THEN Join(", ", [i \in 1..Len(topics.items) |->
                                                              topics.items[i].v])
                       ELSE "None", "", "Informational") >>
            prot == Answer(w, "protection")
            protection ==
                IF IsTruthy(prot.json)
                THEN LET pr_reviews    == IsTruthy(JGet(prot.json, "required_pull_request_reviews"))
                         status_checks == IsTruthy(JGet(prot.json, "required_status_checks"))
                         allow_force_pushes == JGet(JGet(prot.json, "allow_force_pushes"), "enabled")
                         allow_deletions    == JGet(JGet(prot.json, "allow_deletions"), "enabled")
                     IN  << InsightRow("Branch Protection", "Required PR reviews",
                                IF pr_reviews THEN "enabled" ELSE "disabled", "",
                                risk(pr_reviews, "Low", "High")),
                            InsightRow("Branch Protection", "Required status checks",
                                IF status_checks THEN "enabled" ELSE "disabled", "",
                                risk(status_checks, "Low", "Medium")),
                            InsightRow("Branch Protection", "Force pushes allowed?",
                                PyStr(PBool(IsTruthy(allow_force_pushes))), "",
                                risk(allow_force_pushes = PBool(FALSE), "Low", "High")),
                            InsightRow("Branch Protection", "Allow branch deletions?",
                                PyStr(PBool(IsTruthy(allow_deletions))), "",
                                risk(allow_deletions = PBool(FALSE), "Low", "Medium")) >>
                ELSE << InsightRow("Branch Protection", "Protection (default branch)",
                            "unavailable", CodeAndError(prot), "High") >>
            sec == find_file_presence(<<"SECURITY.md", ".github/SECURITY.md", "docs/SECURITY.md">>,
                                      w.security, 1)
            co  == find_file_presence(<<".github/CODEOWNERS", "CODEOWNERS", "docs/CODEOWNERS">>,
                                      w.codeowners, 1)
            files ==
                << InsightRow("Security Policy", "SECURITY.md present",
                       IF IsTruthy(sec.path) THEN "yes" ELSE "no",
                       IF IsTruthy(sec.url) THEN PyStr(sec.url) ELSE "",
                       risk(IsTruthy(sec.path), "Low", "Medium")),
                   InsightRow("Governance", "CODEOWNERS present",
                       IF IsTruthy(co.path) THEN "yes" ELSE "no",
                       IF IsTruthy(co.url) THEN PyStr(co.url) ELSE "",
                       risk(IsTruthy(co.path), "Low", "Medium")) >>
            lic == Answer(w, "license")
            license ==
                IF IsTruthy(lic.json) /\ IsTruthy(JGet(lic.json, "license"))
                THEN LET l == JGet(lic.json, "license")
                     IN  << InsightRow("Legal", "License",
                                IF IsTruthy(JGet(l, "spdx_id")) THEN PyStr(JGet(l, "spdx_id"))
                                ELSE IF IsTruthy(JGet(l, "key")) THEN PyStr(JGet(l, "key"))
                                ELSE "custom",
                                IF HasKey(lic.json.items, "html_url")
                                THEN PyStr(JGet(lic.json, "html_url")) ELSE "",
                                "Informational") >>
                ELSE << InsightRow("Legal", "License", "unavailable",
                            ToString(lic.code) \o ": " \o
                                (IF IsTruthy(lic.err) THEN PyStr(lic.err)
                                 ELSE "no license detected"),
                            "Medium") >>
            wfs == Answer(w, "workflows")
            automation ==
                IF IsTruthy(wfs.json) /\ JGet(wfs.json, "workflows").t = "list"
                THEN LET workflows == JGet(wfs.json, "workflows").items
                         pin == analyze_actions_pinning(w, workflows)
                     IN  << InsightRow("Automation", "Workflow count",
                                ToString(Len(workflows)), "", "Informational"),
                            InsightRow("Automation", "External actions pinned to commit SHA",
                                ToString(pin.pinned), "",
                                risk(pin.pinned > 0 /\ pin.unpinned = 0, "Low", "Medium")),
                            InsightRow("Automation", "External actions NOT pinned (tag/branch)",
                                ToString(pin.unpinned), "",
                                risk(pin.unpinned = 0, "Low", "Medium-High")) >>
                ELSE << InsightRow("Automation", "Workflows list", "unavailable",
                            CodeAndError(wfs), "Unknown") >>
            envs == Answer(w, "environments")
            deployments ==
                IF IsTruthy(envs.json) /\ JGet(envs.json, "environments").t = "list"
                THEN LET es == JGet(envs.json, "environments").items
                         env_names == [i \in 1..Len(es) |-> PyStr(JGet(es[i], "name"))]
                     IN  << InsightRow("Deployments", "Protected environments",
                                IF env_names # <<>> THEN Join(", ", env_names) ELSE "none", "",
                                risk(env_names # <<>>, "Low", "Informational")) >>
                ELSE << InsightRow("Deployments", "Protected environments", "unavailable",
                            CodeAndError(envs), "Unknown") >>
            sbom == Answer(w, "sbom")
            dependencies ==
                IF IsTruthy(sbom.json) /\ sbom.json.t = "dict"
                THEN LET packages == JGet(JGet(sbom.json, "sbom"), "packages")
                     IN  << InsightRow("Dependencies", "SBOM packages",
                                ToString(IF packages.t = "list" THEN Len(packages.items) ELSE 0),
                                "", "Informational") >>
                ELSE << InsightRow("Dependencies", "SBOM packages", "unavailable",
                            CodeAndError(sbom), "Unknown") >>
            commits == Answer(w, "commits")
            commitRows ==
                IF commits.json.t = "list" /\ commits.json.items # <<>>
                THEN LET v == JGet(JGet(commits.json.items[1], "commit"), "verification")
                         verified == IsTruthy(JGet(v, "verified"))
                     IN  << InsightRow("Commits", "Latest commit verified",
                                PyStr(PBool(verified)), "", risk(verified, "Low", "Medium")) >>
                ELSE << InsightRow("Commits", "Latest commit verified", "unavailable",
                            CodeAndError(commits), "Unknown") >>
            collabs == Answer(w, "collaborators")
            access ==
                IF collabs.json.t = "list"
                THEN << InsightRow("Access Control", "Collaborators endpoint", "accessible",
                            "", "Informational") >>
                ELSE << InsightRow("Access Control", "Collaborators endpoint", "unavailable",
                            CodeAndError(collabs), "Unknown") >>
        IN  [ended |-> "rows",
             rows  |-> meta \o protection \o files \o license \o automation \o deployments
                       \o dependencies
                       \o CountedAlerts(Answer(w, "code-scanning"), "Scanning",
                              "Code scanning alerts (count)", "Code scanning alerts", "Medium")
                       \o CountedAlerts(Answer(w, "secret-scanning"), "Scanning",
                              "Secret scanning alerts (count)", "Secret scanning alerts", "High")
                       \o CountedAlerts(Answer(w, "dependabot"), "Dependencies",
                              "Dependabot alerts (count)", "Dependabot alerts", "Medium-High")
                       \o commitRows \o access]

-----------------------------------------------------------------------------
(* get_citation_count (arxiv_citations.py)                                 *)

\* what a provider answers: a 200 JSON object whose count field is the int n,
\* an answer without such a field (another status, another JSON), or a
\* request that raises RequestException (an invalid JSON body included)
CountAnswer(n) == [k |-> "count", n |-> n]
NoCountAnswer  == [k |-> "nocount"]
RaisesAnswer   == [k |-> "raises"]

ProviderAnswers == {CountAnswer(0), CountAnswer(5), NoCountAnswer, RaisesAnswer}

\* what the arXiv API answers: an entry with a DOI, with an empty DOI
\* element, without one, or a failing request
DoiAnswers == {PStr("10.1/x"), PStr(""), Null}

CitationWorlds ==
    [ref : {"valid", "invalid"}, ss : ProviderAnswers, oa : ProviderAnswers,
     doi : DoiAnswers, oad : ProviderAnswers]

\* a reading of the answer that takes a count of 0 for no count
CountOrNoneTruthy(a) == IF a.k = "count" /\ a.n # 0 THEN PInt(a.n) ELSE Null

\* get_from_semanticscholar / get_from_openalex_by_arxiv /
\* get_from_openalex_by_doi: the int of the answer, or None
CountOrNone(a) == IF a.k = "count" THEN PInt(a.n) ELSE Null

NoCitation == [count |-> Null, source |-> "unset"]

\* arxiv_id = normalize_arxiv_id(arxiv_ref): ValueError for a reference that
\* is no arXiv id
NormalizeArxivId ==
    /\ cpc = "start"
    /\ cpc' = IF citWorld.ref = "valid" THEN "ss" ELSE "raised"
    /\ UNCHANGED <<citWorld, citQueries, citResult>>
    /\ CitFrame

\* `count = get_from_...(...)` followed by `if isinstance(count, int): return
\* count, label`: what is returned (citResult stays when the function goes
\* on) and where the function is next
AfterProvider(label, answer, next) ==
    LET count == CountOrNone(answer)
    IN  IF count.t = "int"
        THEN [result |-> [count |-> count, source |-> label], pc |-> "done"]
        ELSE IF next = "done"
             THEN [result |-> [count |-> Null, source |-> ""], pc |-> "done"]
             ELSE [result |-> citResult, pc |-> next]

GetFromSemanticScholar ==
    /\ cpc = "ss"
    /\ citQueries' = Append(citQueries, "semanticscholar")
    /\ citResult' = AfterProvider("semanticscholar", citWorld.ss, "oa").result
    /\ cpc' = AfterProvider("semanticscholar", citWorld.ss, "oa").pc
    /\ UNCHANGED citWorld
    /\ CitFrame

GetFromOpenAlexByArxiv ==
    /\ cpc = "oa"
    /\ citQueries' = Append(citQueries, "openalex-arxiv")
    /\ citResult' = AfterProvider("openalex-arxiv", citWorld.oa, "doi").result
    /\ cpc' = AfterProvider("openalex-arxiv", citWorld.oa, "doi").pc
    /\ UNCHANGED citWorld
    /\ CitFrame

\* doi = resolve_doi_from_arxiv(arxiv_id); `if doi:` guards the last lookup
ResolveDoiFromArxiv ==
    /\ cpc = "doi"
    /\ citQueries' = Append(citQueries, "arxiv")
    /\ IF citWorld.doi.t = "str" /\ citWorld.doi.v # ""
       THEN citResult' = citResult /\ cpc' = "oad"
       ELSE citResult' = [count |-> Null, source |-> ""] /\ cpc' = "done"
    /\ UNCHANGED citWorld
    /\ CitFrame

GetFromOpenAlexByDoi ==
    /\ cpc = "oad"
    /\ citQueries' = Append(citQueries, "openalex-doi")
    /\ citResult' = AfterProvider("openalex-doi", citWorld.oad, "done").result
    /\ cpc' = AfterProvider("openalex-doi", citWorld.oad, "done").pc
    /\ UNCHANGED citWorld
    /\ CitFrame

CitationNext ==
    \/ NormalizeArxivId
    \/ GetFromSemanticScholar
    \/ GetFromOpenAlexByArxiv
    \/ ResolveDoiFromArxiv
    \/ GetFromOpenAlexByDoi

CitIdle ==
    /\ cpc = "idle" /\ citQueries = <<>> /\ citResult = NoCitation
    /\ citWorld = [ref |-> "valid", ss |-> NoCountAnswer, oa |-> NoCountAnswer,
                   doi |-> Null, oad |-> NoCountAnswer]

-----------------------------------------------------------------------------
(* query_all_models (archive-model_scoring_query.py).  A repository id is  *)
(* a sequence of characters; a result record is a dict, a sequence of      *)
(* <<key, value>> pairs in insertion order.                                *)

\* d[k] = v on a dict: the value replaced in place, or the pair added last
SetItem(d, k, v) ==
    IF HasKey(d, k) THEN [i \in 1..Len(d) |-> IF d[i][1] = k THEN <<k, v>> ELSE d[i]]
    ELSE Append(d, <<k, v>>)

\* the index of the first '/' of s at or after i, 0 when there is none
RECURSIVE FirstSlash(_, _)
FirstSlash(s, i) ==
    IF i > Len(s) THEN 0 ELSE IF s[i] = "/" THEN i ELSE FirstSlash(s, i + 1)

\* model_info.__dict__ of a model the hub knows
ModelInfoAttrs(model_id) ==
    << <<"id", PStr(model_id)>>, <<"private", PBool(FALSE)>>,
       <<"downloads", PInt(5)>>, <<"likes", PInt(0)>> >>

ModelInfoKeys ==
    {"id", "sha", "lastModified", "tags", "downloads", "likes", "library_name",
     "pipeline_tag"}

\* d with the pairs of src whose key test accepts copied in, each under
\* the key prefix + key
RECURSIVE CopyItems(_, _, _, _)
CopyItems(d, src, accepted, prefix) ==
    IF src = <<>> THEN d
    ELSE CopyItems(IF Head(src)[1] \in accepted
                   THEN SetItem(d, prefix \o Head(src)[1], Head(src)[2]) ELSE d,
                   Tail(src), accepted, prefix)

\* a query that reports failure with the wrong status
query_huggingface_model_ErrorAsSuccess(model_id, answer) ==
    IF answer = "raises"
    THEN << <<"model_id", PStr(model_id)>>, <<"status", PStr("success")>>,
            <<"error_message", PStr("RepositoryNotFoundError")>> >>
    ELSE CopyItems(<< <<"model_id", PStr(model_id)>>, <<"status", PStr("success")>> >>,
                   ModelInfoAttrs(model_id), ModelInfoKeys, "")

\* query_huggingface_model; answer: "info" | "raises" (HfApi() or
\* api.model_info raised)
query_huggingface_model(model_id, answer) ==
    IF answer = "raises"
    THEN << <<"model_id", PStr(model_id)>>, <<"status", PStr("error")>>,
            <<"error_message", PStr("RepositoryNotFoundError")>> >>
    ELSE CopyItems(<< <<"model_id", PStr(model_id)>>, <<"status", PStr("success")>> >>,
                   ModelInfoAttrs(model_id), ModelInfoKeys, "")

RepoKeyFields ==
    <<"id", "name", "full_name", "description", "html_url", "clone_url",
      "created_at", "updated_at", "pushed_at", "size", "stargazers_count",
      "watchers_count", "forks_count", "open_issues_count", "language",
      "has_issues", "has_projects", "has_downloads", "has_wiki",
      "has_pages", "archived", "disabled", "private", "fork",
      "default_branch", "topics">>

\* d with src[field] copied in under prefix + field, for each of the fields
\* that src has, in the order of the fields
RECURSIVE CopyFields(_, _, _, _)
CopyFields(d, src, fields, prefix) ==
    IF fields = <<>> THEN d
    ELSE CopyFields(IF HasKey(src, Head(fields))
                    THEN SetItem(d, prefix \o Head(fields), Get(src, Head(fields))) ELSE d,
                    src, Tail(fields), prefix)

\* how the repository endpoints answer: "ok" | "extras_fail" (topics and
\* languages answered with an API error) | "extras_raise" (the topics
\* request raised) | "empty" (200 with {}) | "api_error" | "raises" (the
\* repository request raised)
RepoAnswers == {"ok", "extras_fail", "extras_raise", "empty", "api_error", "raises"}

\* safe_get_json(repo_url) when it returns
RepoTriple(answer) ==
    CASE answer = "api_error" -> Triple(Null, 404, PStr("Not Found"))
      [] answer = "empty"     -> Triple(JDict(<<>>), 200, Null)
      [] OTHER ->
             Triple(JDict(<< <<"id", PInt(1)>>, <<"status", PStr("active")>>,
                             <<"topics", JList(<<PStr("ml")>>)>>,
                             <<"owner", JDict(<< <<"login", PStr("o")>>,
                                                 <<"status", PStr("x")>>,
                                                 <<"type", PStr("User")>> >>)>> >>),
                    200, Null)

RepoError(owner, repo, message) ==
    << <<"owner", PStr(owner)>>, <<"repo", PStr(repo)>>, <<"status", PStr("error")>>,
       <<"error_message", PStr(message)>> >>

\* query_github_repo
query_github_repo(owner, repo, answer) ==
    LET t == RepoTriple(answer)
        repo_data == CopyFields(<< <<"owner", PStr(owner)>>, <<"repo", PStr(repo)>>,
                                   <<"status", PStr("success")>> >>,
                                t.json.items, RepoKeyFields, "repo_")
        owner_info == JGet(t.json, "owner")
        with_owner == IF IsTruthy(owner_info)
                      THEN CopyFields(repo_data, owner_info.items,
                                      <<"login", "id", "type", "html_url">>, "owner_")
                      ELSE repo_data
        with_topics == IF answer = "ok"
                       THEN SetItem(with_owner, "topics", PStr(Join(", ", <<"ml">>)))
                       ELSE with_owner
    IN  IF answer = "raises" THEN RepoError(owner, repo, "ConnectionError")
        ELSE IF ~IsTruthy(t.json)
        THEN RepoError(owner, repo,
                       "Failed to fetch repo: " \o ToString(t.code) \o " " \o PyStr(t.err))
        ELSE IF answer = "extras_raise" THEN RepoError(owner, repo, "ConnectionError")
        ELSE IF answer = "ok"
        THEN SetItem(with_topics, "languages", PStr(Join(", ", <<"Python">>)))
        ELSE with_topics

\* the second half of the loop body: the record for gh_id
GithubResult(gh_id, answer) ==
    LET c == FirstSlash(gh_id, 1)
    IN  IF c # 0
        THEN query_github_repo(Join("", SubSeq(gh_id, 1, c - 1)),
                               Join("", SubSeq(gh_id, c + 1, Len(gh_id))), answer)
        ELSE RepoError("unknown", "unknown", "Invalid GitHub ID format: " \o Join("", gh_id))

MaxMappings == 2

HfIdInputs == {"a/m", "b/m"}

GhIdInputs == {<<"o", "/", "r">>, <<"p", "/", "q", "/", "s">>, <<"n", "o">>}

\* the mapping entries with, for each, how its two queries answer; an id
\* without '/' is never queried
QueryEntries ==
    {e \in [hf_id : HfIdInputs, gh_id : GhIdInputs, info : {"info", "raises"},
            repo : RepoAnswers \cup {"unqueried"}] :
        (e.repo = "unqueried") <=> (FirstSlash(e.gh_id, 1) = 0)}

\* one iteration of `for i, (hf_id, gh_id) in enumerate(model_mappings, 1)`
QueryNextModel ==
    /\ qpc = "loop"
    /\ Len(huggingface_results) < Len(model_mappings)
    /\ LET e == model_mappings[Len(huggingface_results) + 1]
       IN  /\ huggingface_results' =
                  Append(huggingface_results, query_huggingface_model(e.hf_id, e.info))
           /\ github_results' = Append(github_results, GithubResult(e.gh_id, e.repo))
    /\ UNCHANGED <<model_mappings, qpc>>
    /\ QueryFrame

\* `return huggingface_results, github_results`
QueryAllModelsReturn ==
    /\ qpc = "loop"
    /\ Len(huggingface_results) = Len(model_mappings)
    /\ qpc' = "returned"
    /\ UNCHANGED <<model_mappings, huggingface_results, github_results>>
    /\ QueryFrame

QueryNext == QueryNextModel \/ QueryAllModelsReturn

QaIdle ==
    /\ qpc = "idle" /\ model_mappings = <<>>
    /\ huggingface_results = <<>> /\ github_results = <<>>

-----------------------------------------------------------------------------
(* The mapping parsers: read_model_list (main.py) and parse_model_mapping  *)
(* (archive-model_scoring_query.py).  A line is a sequence of characters.  *)

\* str.strip() / str.lstrip() for the whitespace of the inputs
RECURSIVE LStrip(_)
LStrip(s) == IF s # <<>> /\ Head(s) = " " THEN LStrip(Tail(s)) ELSE s

RECURSIVE RStrip(_)
RStrip(s) ==
    IF s # <<>> /\ s[Len(s)] = " " THEN RStrip(SubSeq(s, 1, Len(s) - 1)) ELSE s

Strip(s) == RStrip(LStrip(s))

\* the index of the first ',' of s, 0 when there is none
RECURSIVE FirstComma(_, _)
FirstComma(s, i) ==
    IF i > Len(s) THEN 0 ELSE IF s[i] = "," THEN i ELSE FirstComma(s, i + 1)

\* line.split(','): the fields between the commas
RECURSIVE Split(_)
Split(s) ==
    LET c == FirstComma(s, 1)
    IN  IF c = 0 THEN <<s>>
        ELSE <<SubSeq(s, 1, c - 1)>> \o Split(SubSeq(s, c + 1, Len(s)))

\* line.split(',', 1): at most two fields, cut at the first comma
SplitOnce(s) ==
    LET c == FirstComma(s, 1)
    IN  IF c = 0 THEN <<s>> ELSE <<SubSeq(s, 1, c - 1), SubSeq(s, c + 1, Len(s))>>

\* a skip test that knows blank lines only
SkipsLineBlankOnly(line) == line = <<>>

\* `if not line or line.startswith('#'): continue`, line already stripped
SkipsLine(line) == line = <<>> \/ Head(line) = "#"

\* one iteration of read_model_list's loop: the pairs the line adds
ReadModelListLine(raw) ==
    LET line == Strip(raw)
    IN  IF SkipsLine(line) THEN <<>>
        ELSE LET parts == Split(line)
             IN  IF Len(parts) # 2 THEN <<>>
                 ELSE << <<Strip(parts[1]), Strip(parts[2])>> >>

\* one iteration of parse_model_mapping's loop
ParseModelMappingLine(raw) ==
    LET line == Strip(raw)
    IN  IF SkipsLine(line) THEN <<>>
        ELSE IF FirstComma(line, 1) = 0 THEN <<>>
        ELSE LET parts == SplitOnce(line)
                 huggingface_id == Strip(parts[1])
                 github_id == Strip(parts[2])
             IN  IF huggingface_id # <<>> /\ github_id # <<>>
                 THEN << <<huggingface_id, github_id>> >>
                 ELSE <<>>

\* read_model_list over the lines of a file that can be opened
RECURSIVE read_model_list(_)
read_model_list(lines) ==
    IF lines = <<>> THEN <<>>
    ELSE ReadModelListLine(Head(lines)) \o read_model_list(Tail(lines))

RECURSIVE parse_model_mapping(_)
parse_model_mapping(lines) ==
    IF lines = <<>> THEN <<>>
    ELSE ParseModelMappingLine(Head(lines)) \o parse_model_mapping(Tail(lines))

\* inputs: files of at most MaxLines lines
MaxLines == 3

LineInputs ==
    { <<>>, <<" ">>,
      <<"#", "a", ",", "b">>, <<" ", "#", "c">>,
      <<"a", "b">>,
      <<"a", ",", "b">>, <<" ", "a", " ", ",", " ", "b", " ">>,
      <<"a", ",", "b", ",", "c">>,
      <<"a", ",">>, <<",">> }

FileInputs == UNION {[1..n -> LineInputs] : n \in 0..MaxLines}

ReadModelList ==
    /\ ppc = "input"
    /\ parsedMain' = read_model_list(mapFile)
    /\ ppc' = "main"
    /\ UNCHANGED <<mapFile, parsedArchive>>
    /\ ParseFrame

ParseModelMapping ==
    /\ ppc = "main"
    /\ parsedArchive' = parse_model_mapping(mapFile)
    /\ ppc' = "both"
    /\ UNCHANGED <<mapFile, parsedMain>>
    /\ ParseFrame

ParseNext == ReadModelList \/ ParseModelMapping

-----------------------------------------------------------------------------
(* main.py: the CSV driver                                                 *)

\* how the outside world answers while one entry is processed
MainWorlds ==
    [model : {"ok", "raise"}, export : {"ok", "raise"}, user : {"ok", "none"},
     append : {"ok", "raise"}, repo : {"ok", "api_error", "transport"},
     rest : {"ok", "transport"}, write : {"ok", "raise"}]

\* the GitHub part of process_model (main.py lines 89-98): the inner try
GithubStepMain(entry, w) ==
    IF ~HasSlash(entry.gh)
    THEN [security |-> "no_slash", ended |-> "returned", ghQuery |-> FALSE]
    ELSE LET c == IF collect(w) = "rows" /\ w.write = "raise" THEN "Exception"
                  ELSE collect(w)
         IN  IF c = "rows" THEN [security |-> "csv", ended |-> "returned", ghQuery |-> TRUE]
             ELSE IF CaughtByExceptException(c)
                  THEN [security |-> "error", ended |-> "returned", ghQuery |-> TRUE]
                  ELSE [security |-> "none", ended |-> c, ghQuery |-> TRUE]

\* process_model(hf_model_name, github_repo) of main.py: what it did, and
\* whether it returned or an exception left it
\* a version that goes on to the owner and repository queries after a failed
\* model fetch
process_model_main_GoesOn(entry, w) ==
    LET g == GithubStepMain(entry, w)
    IN  [model |-> (w.model # "raise"), csv |-> (w.model # "raise"),
         owner |-> (w.user = "ok"), security |-> g.security, ended |-> g.ended,
         ownerQuery |-> TRUE, ghQuery |-> g.ghQuery,
         printed |-> IF w.model = "raise" THEN "Error processing model" ELSE "none"]

\* ownerQuery, ghQuery: query_user_overview / query_github_security was
\* called; printed: the message of the outer `except Exception`, if it ran.
process_model_main(entry, w) ==
    IF w.model = "raise"
    THEN [model |-> FALSE, csv |-> FALSE, owner |-> FALSE, security |-> "none",
          ended |-> "returned", ownerQuery |-> FALSE, ghQuery |-> FALSE,
          printed |-> "Error processing model"]
    ELSE IF w.export = "raise"
    THEN [model |-> TRUE, csv |-> FALSE, owner |-> FALSE, security |-> "none",
          ended |-> "returned", ownerQuery |-> FALSE, ghQuery |-> FALSE,
          printed |-> "Error processing model"]
    ELSE IF w.user = "ok" /\ w.append = "raise"
    THEN [model |-> TRUE, csv |-> TRUE, owner |-> FALSE, security |-> "none",
          ended |-> "returned", ownerQuery |-> TRUE, ghQuery |-> FALSE,
          printed |-> "Error processing model"]
    ELSE LET g == GithubStepMain(entry, w)
         IN  [model |-> TRUE, csv |-> TRUE, owner |-> (w.user = "ok"),
              security |-> g.security, ended |-> g.ended,
              ownerQuery |-> TRUE, ghQuery |-> g.ghQuery, printed |-> "none"]

\* models = read_model_list(); if not models: return
MainStart ==
    /\ dpc = "start"
    /\ dpc' = IF models = <<>> THEN "done" ELSE "loop"
    /\ UNCHANGED <<models, idx, runlog, saveAttempts>>
    /\ MainFrame

\* one iteration of `for i, (hf_model_name, github_repo) in enumerate(models, 1)`
MainProcessModel ==
    /\ dpc = "loop"
    /\ idx <= Len(models)
    /\ \E w \in MainWorlds :
        LET r == process_model_main(models[idx], w)
        IN  /\ runlog' = Append(runlog, r)
            /\ IF r.ended = "returned"
               THEN idx' = idx + 1 /\ dpc' = "loop"
               ELSE idx' = idx /\ dpc' = "exited"
    /\ UNCHANGED <<models, saveAttempts>>
    /\ MainFrame

\* the loop is over: "All models processed successfully!"
MainFinish ==
    /\ dpc = "loop"
    /\ idx > Len(models)
    /\ dpc' = "done"
    /\ UNCHANGED <<models, idx, runlog, saveAttempts>>
    /\ MainFrame

MainNext == MainStart \/ MainProcessModel \/ MainFinish

DrvIdle ==
    /\ models = <<>> /\ idx = 1 /\ dpc = "idle" /\ runlog = <<>> /\ saveAttempts = 0

-----------------------------------------------------------------------------
(* model_processor.py: ModelProcessor, and the spreadsheet pipeline's run  *)

\* hf_org_query.py.  What one query_org_* call returns: None (the request
\* failed: RequestException caught), the overview's JSON object, or a JSON
\* list of n items
NoneReturned   == [k |-> "none"]
OverviewJson(d) == [k |-> "dict", d |-> d]
JsonList(n)    == [k |-> "list", n |-> n]

\* `if x` for these values: None, {} and [] are falsy
Truthy(x) ==
    CASE x.k = "none" -> FALSE
      [] x.k = "dict" -> x.d # <<>>
      [] x.k = "list" -> x.n > 0

OverviewInputs == {NoneReturned, OverviewJson(<<>>), OverviewJson(<< <<"fullname", PStr("O")>> >>)}

ListInputs == {NoneReturned, JsonList(0), JsonList(2)}

\* how the five organization endpoints answer
OrgWorlds ==
    [overview : OverviewInputs, members : ListInputs, models : ListInputs,
     datasets : ListInputs, spaces : ListInputs]

AllOrgQueriesFail ==
    [overview |-> NoneReturned, members |-> NoneReturned, models |-> NoneReturned,
     datasets |-> NoneReturned, spaces |-> NoneReturned]

AllOrgQueriesAnswer ==
    [overview |-> OverviewJson(<< <<"fullname", PStr("O")>> >>), members |-> JsonList(2),
     models |-> JsonList(2), datasets |-> JsonList(0), spaces |-> JsonList(2)]

OwnerName == "o"

\* a query that returns an empty dict when no endpoint answered
get_all_org_info_EmptyWhenAllFail(org_name, ow) ==
    IF ow = AllOrgQueriesFail THEN <<>>
    ELSE << <<"org_name", PStr(org_name)>>, <<"overview", ow.overview>>,
            <<"members", ow.members>>, <<"models", ow.models>>,
            <<"datasets", ow.datasets>>, <<"spaces", ow.spaces>> >>

\* get_all_org_info: the combined dict, as the pairs of its items
get_all_org_info(org_name, ow) ==
    << <<"org_name", PStr(org_name)>>, <<"overview", ow.overview>>,
       <<"members", ow.members>>, <<"models", ow.models>>,
       <<"datasets", ow.datasets>>, <<"spaces", ow.spaces>> >>

\* len(org_info.get(key, [])) if org_info.get(key) else 0
CountOf(org_info, key) ==
    IF HasKey(org_info, key) /\ Truthy(Get(org_info, key))
    THEN Get(org_info, key).n ELSE 0

\* the flattened_info dict of append_org_info_to_excel
FlattenedInfo(org_info) ==
    LET overview == IF HasKey(org_info, "overview") /\ Truthy(Get(org_info, "overview"))
                    THEN Get(org_info, "overview").d ELSE <<>>
    IN  << <<"org_name", IF HasKey(org_info, "org_name")
                         THEN Get(org_info, "org_name") ELSE PStr("")>> >>
        \o [i \in 1..Len(overview) |-> <<"overview_" \o overview[i][1], overview[i][2]>>]
        \o << <<"members_count",  PInt(CountOf(org_info, "members"))>>,
              <<"models_count",   PInt(CountOf(org_info, "models"))>>,
              <<"datasets_count", PInt(CountOf(org_info, "datasets"))>>,
              <<"spaces_count",   PInt(CountOf(org_info, "spaces"))>> >>

PipelineWorlds ==
    [model : {"ok", "raise"}, userProbe : {"200", "404", "500", "exc"},
     orgProbe : {"200", "404", "exc"}, user : {"ok", "none"},
     org : {AllOrgQueriesFail, AllOrgQueriesAnswer},
     repo : {"ok", "api_error", "transport"}, rest : {"ok", "transport"}]

\* one requests.get of _is_organization: the endpoint and the status code it
\* answered ("exc": it raised)
Probe(endpoint, status) == [endpoint |-> endpoint, status |-> status]

\* a classification that falls back to the organization probe on every user
\* status other than 200
_is_organization_AnyNon200(w) ==
    CASE w.userProbe \in {"200", "exc"} ->
             [ret |-> FALSE, probes |-> <<Probe("user", w.userProbe)>>]
      [] OTHER -> [ret |-> (w.orgProbe = "200"),
                   probes |-> <<Probe("user", w.userProbe), Probe("org", w.orgProbe)>>]

\* ModelProcessor._is_organization: its return value and the endpoints it
\* probed, in order ("exc": requests.get raised, caught by `except Exception`)
_is_organization(w) ==
    CASE w.userProbe = "200" -> [ret |-> FALSE, probes |-> <<Probe("user", "200")>>]
      [] w.userProbe = "404" ->
             [ret |-> (w.orgProbe = "200"),
              probes |-> <<Probe("user", "404"), Probe("org", w.orgProbe)>>]
      [] OTHER -> [ret |-> FALSE, probes |-> <<Probe("user", w.userProbe)>>]

ModelInfoSuffix == <<"_", "m", "o", "d", "e", "l", "_", "i", "n", "f", "o">>
OrgSuffix       == <<"-", "H", "F", "-", "o", "r", "g">>
SecuritySuffix  ==
    <<"_", "g", "i", "t", "h", "u", "b", "_", "s", "e", "c", "u", "r", "i", "t", "y">>

ModelInfoDict == << <<"modelId", PStr("o/m")>>, <<"sha", PStr("abc")>>, <<"downloads", PInt(7)>> >>

SecurityRows ==
    << << <<"Scope", PStr("Repository")>>, <<"Key", PStr("repo.id")>>,
          <<"Value", PStr("1")>> >> >>

\* export_model_info_to_excel (hf_model_query.py): tab "<row>_model_info"
export_model_info_to_excel(ws, row_number) ==
    create_tab_from_key_value_pairs(ws, Digits(row_number) \o ModelInfoSuffix, ModelInfoDict)

\* append_org_info_to_excel (hf_org_query.py): nothing for an empty dict,
\* else the tab "<row>-HF-org" with the one row of flattened_info
append_org_info_to_excel(ws, org_info, row_number) ==
    IF org_info = <<>> THEN ws
    ELSE create_tab_from_csv_data(ws, Digits(row_number) \o OrgSuffix,
                                  <<FlattenedInfo(org_info)>>)

\* ModelProcessor._process_huggingface_model: [ok, ws].  The call
\* append_user_info_to_excel(user_info, excel_manager, row_number) lacks the
\* user_name argument of hf_user_query.py line 34: it raises TypeError, which
\* the method's `except Exception` turns into False.
\* probes: the endpoints _is_organization probed; detail: the owner detail
\* queried, "org" (get_all_org_info) or "user" (query_user_overview);
\* ownerInfo: that query returned a truthy owner_info / user_info.
_process_huggingface_model_ExportsAnyway(ws, row_number, w) ==
    LET ws1 == export_model_info_to_excel(ws, row_number)
        o   == _is_organization(w)
    IN  [ok |-> (w.model # "raise"), ws |-> ws1, owner |-> "none",
         probes |-> o.probes, detail |-> IF o.ret THEN "org" ELSE "user",
         ownerInfo |-> FALSE]

_process_huggingface_model(ws, row_number, w) ==
    IF w.model = "raise"
    THEN [ok |-> FALSE, ws |-> ws, owner |-> "none", probes |-> <<>>, detail |-> "none",
          ownerInfo |-> FALSE]
    ELSE LET ws1 == export_model_info_to_excel(ws, row_number)
             o   == _is_organization(w)
             owner_info == get_all_org_info(OwnerName, w.org)
         IN  IF o.ret
             THEN IF owner_info # <<>>
                  THEN [ok |-> TRUE,
                        ws |-> append_org_info_to_excel(ws1, owner_info, row_number),
                        owner |-> "org", probes |-> o.probes, detail |-> "org",
                        ownerInfo |-> TRUE]
                  ELSE [ok |-> TRUE, ws |-> ws1, owner |-> "none",
                        probes |-> o.probes, detail |-> "org", ownerInfo |-> FALSE]
             ELSE IF w.user = "ok"
                  THEN [ok |-> FALSE, ws |-> ws1, owner |-> "TypeError",
                        probes |-> o.probes, detail |-> "user", ownerInfo |-> TRUE]
                  ELSE [ok |-> TRUE, ws |-> ws1, owner |-> "none",
                        probes |-> o.probes, detail |-> "user", ownerInfo |-> FALSE]

\* query_github_security_to_excel (gh_sec2.py): rows = collect(owner, repo),
\* then the tab "<row>_github_security"
query_github_security_to_excel(ws, row_number, w) ==
    IF collect(w) = "rows"
    THEN [ended |-> "returned",
          ws |-> create_tab_from_csv_data(ws, Digits(row_number) \o SecuritySuffix,
                                          SecurityRows)]
    ELSE [ended |-> collect(w), ws |-> ws]

\* ModelProcessor._process_github_security: [ok, ws, ended]
_process_github_security(ws, entry, row_number, w) ==
    IF ~HasSlash(entry.gh) THEN [ok |-> FALSE, ws |-> ws, ended |-> "returned"]
    ELSE LET q == query_github_security_to_excel(ws, row_number, w)
         IN  IF q.ended = "returned" THEN [ok |-> TRUE, ws |-> q.ws, ended |-> "returned"]
             ELSE IF CaughtByExceptException(q.ended)
                  THEN [ok |-> FALSE, ws |-> ws, ended |-> "returned"]
                  ELSE [ok |-> FALSE, ws |-> ws, ended |-> q.ended]

\* ModelProcessor.process_model: its return value (when it returns), the
\* workbook after it, and what each step did
process_model(ws, entry, row_number, w) ==
    LET hf == _process_huggingface_model(ws, row_number, w)
    IN  IF ~hf.ok
        THEN [ret |-> FALSE, ws |-> hf.ws, hf |-> FALSE, owner |-> hf.owner,
              gh |-> "skipped", ended |-> "returned",
              probes |-> hf.probes, detail |-> hf.detail, ownerInfo |-> hf.ownerInfo]
        ELSE LET g == _process_github_security(hf.ws, entry, row_number, w)
             IN  IF g.ended = "returned"
                 THEN [ret |-> TRUE, ws |-> g.ws, hf |-> TRUE, owner |-> hf.owner,
                       gh |-> (IF g.ok THEN "ok" ELSE "failed"), ended |-> "returned",
                       probes |-> hf.probes, detail |-> hf.detail, ownerInfo |-> hf.ownerInfo]
                 ELSE [ret |-> FALSE, ws |-> g.ws, hf |-> TRUE, owner |-> hf.owner,
                       gh |-> "failed", ended |-> g.ended,
                       probes |-> hf.probes, detail |-> hf.detail, ownerInfo |-> hf.ownerInfo]

\* a save() that logs the error of a failed write and returns nothing
save_SwallowsError(path, outcome) ==
    IF outcome = "written" THEN [ended |-> "returned", path |-> path]
    ELSE [ended |-> "returned", path |-> ""]

\* ExcelManager.save(): workbook.save(self.file_path) either writes the file
\* and self.file_path is returned, or raises and the exception is re-raised
save(path, outcome) ==
    IF outcome = "written" THEN [ended |-> "returned", path |-> path]
    ELSE [ended |-> "raised", path |-> ""]

\* The run of the spreadsheet pipeline.  Config.__post_init__ builds the
\* ExcelManager (an empty workbook); the loop over the mapping and the final
\* save are the pipeline's driver.
PipelineStart ==
    /\ dpc = "start"
    /\ dpc' = "ploop"
    /\ UNCHANGED <<models, idx, runlog, saveAttempts, xlVars>>
    /\ PipelineFrame

PipelineProcessModel ==
    /\ dpc = "ploop"
    /\ idx <= Len(models)
    /\ \E w \in PipelineWorlds :
        \E r \in {process_model(worksheets, models[idx], idx, w)} :
            /\ runlog' = Append(runlog, [ret |-> r.ret, hf |-> r.hf, owner |-> r.owner,
                                         gh |-> r.gh, ended |-> r.ended,
                                         probes |-> r.probes, detail |-> r.detail,
                                         ownerInfo |-> r.ownerInfo,
                                         orgFailed |-> (r.detail = "org"
                                                        /\ w.org = AllOrgQueriesFail),
                                         fetched |-> (w.model = "ok"),
                                         tabs |-> Len(r.ws) - Len(worksheets)])
            /\ worksheets' = r.ws
            /\ IF r.ended = "returned"
               THEN idx' = idx + 1 /\ dpc' = "ploop"
               ELSE idx' = idx /\ dpc' = "exited"
    /\ UNCHANGED <<models, saveAttempts, file_path, lastSave, calls, lastCall>>
    /\ PipelineFrame

PipelineSave ==
    /\ dpc = "ploop"
    /\ idx > Len(models)
    /\ saveAttempts' = saveAttempts + 1
    /\ \E outcome \in {"written", "failed"} :
        /\ lastSave' = [write |-> outcome, ret |-> save(file_path, outcome)]
        /\ dpc' = IF outcome = "written" THEN "done" ELSE "exited"
    /\ UNCHANGED <<models, idx, runlog, worksheets, file_path, calls, lastCall>>
    /\ PipelineFrame

PipelineNext == PipelineStart \/ PipelineProcessModel \/ PipelineSave

-----------------------------------------------------------------------------
(* ExcelManager used on its own                                            *)

CreateTab ==
    /\ Len(worksheets) < MaxTabs
    /\ \E tab_name \in NameInputs, data \in DataInputs, headers \in HeaderInputs :
        /\ worksheets' = create_tab(worksheets, tab_name, data, headers)
        /\ calls' = Append(calls, tab_name)
        /\ lastCall' = [op |-> "create_tab", tab_name |-> tab_name, data |-> data,
                        headers |-> headers, before |-> Len(worksheets)]
    /\ UNCHANGED <<file_path, lastSave>>
    /\ ExcelFrame

CreateTabFromCsvData ==
    /\ Len(worksheets) < MaxTabs
    /\ \E tab_name \in NameInputs, data \in DataInputs :
        /\ worksheets' = create_tab_from_csv_data(worksheets, tab_name, data)
        /\ calls' = Append(calls, tab_name)
        /\ lastCall' = [op |-> "create_tab_from_csv_data", tab_name |-> tab_name,
                        data |-> data, headers |-> <<>>, before |-> Len(worksheets)]
    /\ UNCHANGED <<file_path, lastSave>>
    /\ ExcelFrame

CreateTabFromKeyValuePairs ==
    /\ Len(worksheets) < MaxTabs
    /\ \E tab_name \in NameInputs, d \in DictInputs :
        /\ worksheets' = create_tab_from_key_value_pairs(worksheets, tab_name, d)
        /\ calls' = Append(calls, tab_name)
        /\ lastCall' = [op |-> "create_tab_from_key_value_pairs", tab_name |-> tab_name,
                        data |-> d, headers |-> <<>>, before |-> Len(worksheets)]
    /\ UNCHANGED <<file_path, lastSave>>
    /\ ExcelFrame

Save ==
    /\ \E outcome \in {"written", "failed"} :
        lastSave' = [write |-> outcome, ret |-> save(file_path, outcome)]
    /\ UNCHANGED <<worksheets, file_path, calls, lastCall>>
    /\ ExcelFrame

ExcelNext == CreateTab \/ CreateTabFromCsvData \/ CreateTabFromKeyValuePairs \/ Save

NoCall == [op |-> "none", tab_name |-> <<>>, data |-> <<>>, headers |-> <<>>, before |-> 0]

\* datetime.now().strftime("%Y%m%d_%H%M%S") at two moments
TimestampInputs == {"20250101_000000", "20251231_235959"}

\* output_dir / f"{filename_prefix}_{timestamp}.xlsx"
FilePath(timestamp) == "out/modelscore_" \o timestamp \o ".xlsx"

NoSave == [write |-> "none", ret |-> [ended |-> "none", path |-> ""]]

\* ExcelManager.__init__ at the moment `timestamp`: the file path, and the
\* workbook without its default sheet
XlInitAt(timestamp) ==
    /\ file_path = FilePath(timestamp)
    /\ worksheets = <<>> /\ lastSave = NoSave /\ calls = <<>> /\ lastCall = NoCall

XlInit == XlInitAt("20250101_000000")

SanIdle == snpc = "idle" /\ snName = <<>> /\ snOnce = <<>> /\ snTwice = <<>>

ParseIdle == ppc = "idle" /\ mapFile = <<>> /\ parsedMain = <<>> /\ parsedArchive = <<>>

NoReport == [ended |-> "none", rows |-> <<>>]

NoWorld == [failed |-> {}, ownerType |-> "User", security |-> 0, codeowners |-> 0]

SecIdle ==
    /\ secpc = "idle" /\ ghWorld = NoWorld /\ collectOut = NoReport /\ checklistOut = NoReport

-----------------------------------------------------------------------------
(* Specifications, one per component                                       *)

\* _sanitize_tab_name on its own: inputs are every name of at most
\* MaxShortName characters over SanChars, and names around the 31-character
\* limit made of a valid or an invalid character
MaxShortName == 3

SanChars == {"a", "_", "/", "]"}

ShortNames == UNION {[1..n -> SanChars] : n \in 0..MaxShortName}

LongNames ==
    {Rep(c, n) \o tail : c \in {"x", "/"},
                         n \in (MaxTitleLen - 1)..(MaxTitleLen + 1),
                         tail \in {<<>>, <<"?">>, <<"y">>}}

SanitizeOnce ==
    /\ snpc = "input"
    /\ snOnce' = _sanitize_tab_name(snName)
    /\ snpc' = "once"
    /\ UNCHANGED <<snName, snTwice>>
    /\ SanFrame

SanitizeTwice ==
    /\ snpc = "once"
    /\ snTwice' = _sanitize_tab_name(snOnce)
    /\ snpc' = "twice"
    /\ UNCHANGED <<snName, snOnce>>
    /\ SanFrame

SanitizeNext == SanitizeOnce \/ SanitizeTwice

InitSanitize ==
    /\ snpc = "input" /\ snName \in ShortNames \cup LongNames
    /\ snOnce = <<>> /\ snTwice = <<>>
    /\ XlInit /\ FetchIdle /\ clock = 0 /\ FlatIdle /\ DrvIdle /\ ParseIdle /\ SecIdle /\ CitIdle /\ QaIdle

SpecSanitize == InitSanitize /\ [][SanitizeNext]_vars

InitParse ==
    /\ ppc = "input" /\ mapFile \in FileInputs
    /\ parsedMain = <<>> /\ parsedArchive = <<>>
    /\ XlInit /\ FetchIdle /\ clock = 0 /\ FlatIdle /\ DrvIdle /\ SanIdle /\ SecIdle /\ CitIdle /\ QaIdle

SpecParse == InitParse /\ [][ParseNext]_vars

\* the two security reports run against the same answers
Collect ==
    /\ secpc = "input"
    /\ collectOut' = collect_rows(ghWorld)
    /\ secpc' = "collected"
    /\ UNCHANGED <<ghWorld, checklistOut>>
    /\ SecFrame

GenerateSecurityChecklist ==
    /\ secpc = "collected"
    /\ checklistOut' = generate_security_checklist(ghWorld)
    /\ secpc' = "both"
    /\ UNCHANGED <<ghWorld, collectOut>>
    /\ SecFrame

SecurityNext == Collect \/ GenerateSecurityChecklist

InitSecurity ==
    /\ secpc = "input"
    /\ ghWorld \in [failed : {f \in SUBSET FailableEndpoints : Cardinality(f) <= MaxFailed},
                     ownerType : {"Organization", "User"},
                     security : 0..3, codeowners : 0..3]
    /\ collectOut = NoReport /\ checklistOut = NoReport
    /\ XlInit /\ FetchIdle /\ clock = 0 /\ FlatIdle /\ DrvIdle /\ SanIdle /\ ParseIdle
    /\ CitIdle /\ QaIdle

SpecSecurity == InitSecurity /\ [][SecurityNext]_vars

\* an exporter constructed at either moment, filled through
\* create_tab_from_key_value_pairs and saved any number of times
InitSave ==
    /\ \E timestamp \in TimestampInputs : XlInitAt(timestamp)
    /\ FetchIdle /\ clock = 0 /\ FlatIdle /\ DrvIdle /\ SanIdle /\ ParseIdle /\ SecIdle /\ CitIdle /\ QaIdle

SaveNext == CreateTabFromKeyValuePairs \/ Save

SpecSave == InitSave /\ [][SaveNext]_vars

InitCitation ==
    /\ cpc = "start" /\ citWorld \in CitationWorlds
    /\ citQueries = <<>> /\ citResult = NoCitation
    /\ XlInit /\ FetchIdle /\ clock = 0 /\ FlatIdle /\ DrvIdle /\ SanIdle /\ ParseIdle
    /\ SecIdle /\ QaIdle

SpecCitation == InitCitation /\ [][CitationNext]_vars

\* query_all_models called on any mapping of at most MaxMappings entries
InitQueryAll ==
    /\ qpc = "loop"
    /\ model_mappings \in UNION {[1..n -> QueryEntries] : n \in 0..MaxMappings}
    /\ huggingface_results = <<>> /\ github_results = <<>>
    /\ XlInit /\ FetchIdle /\ clock = 0 /\ FlatIdle /\ DrvIdle /\ SanIdle /\ ParseIdle
    /\ SecIdle /\ CitIdle

SpecQueryAll == InitQueryAll /\ [][QueryNext]_vars

InitExcel == XlInit /\ FetchIdle /\ clock = 0 /\ FlatIdle /\ DrvIdle /\ SanIdle /\ ParseIdle /\ SecIdle /\ CitIdle /\ QaIdle

SpecExcel == InitExcel /\ [][ExcelNext]_vars

InitFetch ==
    /\ FetchIdle /\ clock \in StartTimes
    /\ XlInit /\ FlatIdle /\ DrvIdle /\ SanIdle /\ ParseIdle /\ SecIdle /\ CitIdle /\ QaIdle

SpecFetch == InitFetch /\ [][FetchNext]_vars

\* the call is sequential code: it keeps running until it returns or raises
SpecFetchLive == SpecFetch /\ WF_vars(FetchNext)

InitFlatten ==
    /\ flpc = "input" /\ flPrefix \in PrefixInputs
    /\ IsInput(flA, MaxNodes) /\ flB = Null
    /\ flOutA = NoOutput /\ flOutB = NoOutput
    /\ XlInit /\ FetchIdle /\ clock = 0 /\ DrvIdle /\ SanIdle /\ ParseIdle /\ SecIdle /\ CitIdle /\ QaIdle

FlattenNext == FlattenA \/ FlattenB

SpecFlatten == InitFlatten /\ [][FlattenNext]_vars

InitFlattenPair ==
    /\ flpc = "input" /\ flPrefix \in PrefixInputs
    /\ IsInput(flA, MaxPairNodes) /\ IsInput(flB, MaxPairNodes)
    /\ flOutA = NoOutput /\ flOutB = NoOutput
    /\ XlInit /\ FetchIdle /\ clock = 0 /\ DrvIdle /\ SanIdle /\ ParseIdle /\ SecIdle /\ CitIdle /\ QaIdle

SpecFlattenPair == InitFlattenPair /\ [][FlattenNext]_vars

InitDriver ==
    /\ models \in MappingInputs /\ idx = 1 /\ dpc = "start" /\ runlog = <<>>
    /\ saveAttempts = 0
    /\ XlInit /\ FetchIdle /\ clock = 0 /\ FlatIdle /\ SanIdle /\ ParseIdle /\ SecIdle /\ CitIdle /\ QaIdle

SpecMain == InitDriver /\ [][MainNext]_vars

SpecPipeline == InitDriver /\ [][PipelineNext]_vars

\* either driver run on the mapping
DriversNext == MainNext \/ PipelineNext

SpecDrivers == InitDriver /\ [][DriversNext]_vars

-----------------------------------------------------------------------------
(* The claims                                                              *)

\* C1: after any sequence of create_tab, create_tab_from_csv_data and
\* create_tab_from_key_value_pairs calls, every tab title of the workbook is
\* unique, at most 31 characters long and free of / \ ? * [ ].
C1_TitlesUniqueShortClean ==
    /\ \A i, j \in 1..Len(worksheets) :
         i # j => worksheets[i].title # worksheets[j].title
    /\ \A i \in 1..Len(worksheets) :
         /\ Len(worksheets[i].title) <= 31
         /\ Range(worksheets[i].title) \cap {"/", "\\", "?", "*", "[", "]"} = {}

\* C2: one call of the fetcher issues at most 3 HTTP requests, whatever the
\* server answers, and then ends (returns or raises).
C2_AtMostThreeRequestsThenEnds ==
    /\ [](requests <= 3)
    /\ <>(fpc \in {"done", "raised"})

C2_Witness == fpc = "done" /\ requests = 3 /\ sleeps.n = 3

\* the rate-limit signal as the specification words it: status 403 or 429
\* with a zero-remaining header
IsQuotaSignal(r) == r.status \in {403, 429} /\ r.remaining = Text("0")

\* C3: a response that carries the rate-limit signal (403 or 429 with zero
\* remaining) is never returned by _req while attempts remain: it is slept on
\* and the request is issued again.
C3_QuotaSignalIsRetried ==
    (fpc = "resp" /\ IsQuotaSignal(resp)) => attempt = 3

\* the reset timestamp R of a header: 0 when the header is missing or empty
ResetOf(hdr) == IF hdr.k = "int" THEN hdr.n ELSE 0

\* C4: for a rate-limited response received at time T with reset timestamp R
\* the sleep lasts at least min(max(0, R - T), 60) and at most 60 seconds, and
\* the call is not further on than the sleep allows: the clock has advanced
\* by at least that much.
C4_SleepBounded ==
    sleeps.n > 0 =>
        LET R == ResetOf(sleeps.hdr)
            T == sleeps.at
            least == Min(Max(0, R - T), 60)
        IN  /\ sleeps.slept >= least
            /\ sleeps.slept <= 60
            /\ clock >= T + least
            /\ sleeps.total <= 60 * sleeps.n

\* a call that slept twice, first on a reset far in the future (clamped to
\* 60 seconds), then on a reset 5 seconds ahead, and has returned
C4_Witness ==
    /\ fpc = "done" /\ sleeps.n = 2 /\ sleeps.total >= 65 /\ sleeps.total <= 120
    /\ sleeps.hdr = Num(sleeps.at + 5) /\ sleeps.slept >= 5
    /\ clock >= sleeps.at + 5

\* C5: when the first response is non-2xx and not a rate-limit signal,
\* safe_get_json makes one request and returns (None, status, message), the
\* message being the JSON body's error message, or the raw text when the body
\* is not JSON, and never None.
C5_ErrorTripleCarriesMessage ==
    (/\ fpc = "done"
     /\ (firstResp.status < 200 \/ firstResp.status >= 300)
     /\ ~IsQuotaSignal(firstResp))
    => /\ requests = 1
       /\ result.json = "none"
       /\ result.code = firstResp.status
       /\ result.msg # Null
       /\ firstResp.body.json = "none" => result.msg = PStr(firstResp.body.text)
       /\ firstResp.body.hasMessage => result.msg = PStr(firstResp.body.message)

\* C6: no exception of a transport failure leaves safe_get_json: the call is
\* retried up to the cap and a failure triple is returned.
C6_NoTransportExceptionEscapes ==
    ~(fpc = "raised" /\ result.exc = "ConnectionError")

\* C7: no per-entry failure ends the run: the driver comes to every mapping
\* entry, so a run that is over has begun the processing of each entry.
C7_EveryEntryAttempted ==
    /\ dpc # "exited"
    /\ dpc = "done" => Len(runlog) = Len(models)

RECURSIVE SameUpToCoercion(_, _)
SameUpToCoercion(a, b) ==
    IF IsScalar(a) \/ IsScalar(b)
    THEN IsScalar(a) /\ IsScalar(b) /\ PyStr(a) = PyStr(b)
    ELSE /\ a.t = b.t
         /\ Len(a.items) = Len(b.items)
         /\ \A i \in 1..Len(a.items) :
              IF a.t = "dict"
              THEN /\ a.items[i][1] = b.items[i][1]
                   /\ SameUpToCoercion(a.items[i][2], b.items[i][2])
              ELSE SameUpToCoercion(a.items[i], b.items[i])

\* C9: the pairs emitted by _flatten determine the value: two values that
\* flatten to the same pair sequence are equal up to the string coercion of
\* their scalars.
C9_FlattenDeterminesValue ==
    (flpc = "both" /\ flOutA = flOutB) => SameUpToCoercion(flA, flB)

\* the i-th child of a dict or list
Child(v, i) == IF v.t = "dict" THEN v.items[i][2] ELSE v.items[i]

\* the addresses (child positions from the root) of the scalar leaves of v
RECURSIVE LeafAddrs(_)
LeafAddrs(v) ==
    IF IsScalar(v) THEN {<<>>}
    ELSE UNION {{<<i>> \o a : a \in LeafAddrs(Child(v, i))} : i \in 1..Len(v.items)}

\* a comes before b in depth-first order
LexLess(a, b) ==
    \E k \in 1..Min(Len(a), Len(b)) :
        a[k] < b[k] /\ \A j \in 1..(k - 1) : a[j] = b[j]

RECURSIVE ValueAt(_, _)
ValueAt(v, a) == IF a = <<>> THEN v ELSE ValueAt(Child(v, Head(a)), Tail(a))

\* the path of the node at address a: the prefix extended with '.key' for a
\* dict key (the '.' left out when the path so far is empty) and '[i]' for a
\* list index
RECURSIVE PathAt(_, _, _)
PathAt(path, v, a) ==
    IF a = <<>> THEN path
    ELSE LET step == IF v.t = "dict"
                     THEN (IF path = "" THEN "" ELSE ".") \o v.items[Head(a)][1]
                     ELSE "[" \o ToString(Head(a) - 1) \o "]"
         IN  PathAt(path \o step, Child(v, Head(a)), Tail(a))

\* C10: _flatten(prefix, v) emits one pair per scalar leaf of v, in
\* depth-first order along the input's own key and index order; the pair of a
\* leaf is its path and its string form.
C10_OnePairPerLeafInOrder ==
    flpc # "input" =>
        LET addrs == LeafAddrs(flA)
        IN  /\ Len(flOutA) = Cardinality(addrs)
            /\ \A a \in addrs :
                 flOutA[Cardinality({b \in addrs : LexLess(b, a)}) + 1]
                     = <<PathAt(flPrefix, flA, a), PyStr(ValueAt(flA, a))>>

\* {"a": [1], "a.a": None} under the prefix "repo"
C10_Witness ==
    /\ flpc = "one"
    /\ flA = JDict(<< <<"a", JList(<<PInt(1)>>)>>, <<"a.a", Null>> >>)
    /\ flOutA = << <<"repo.a[0]", "1">>, <<"repo.a.a", "None">> >>

-----------------------------------------------------------------------------

\* N followed by _j
Suffixed(N, j) == N \o <<"_">> \o Digits(j)

\* the title t is N or looks like N_j
IsOrLooksLike(t, N) == t = N \/ \E j \in 1..(Len(worksheets) + 1) : t = Suffixed(N, j)

\* the positions of the calls that requested the name N
CallsOf(N) == {i \in 1..Len(calls) : calls[i] = N}

\* C11: when an already sanitized name N is requested several times on a
\* workbook that had no tab titled N or N_i, the first of these tabs is titled
\* N; every later one is titled N_j for some j and its title was unused when
\* it was created; and when no other tab titled like N_j came in between, the
\* tabs are N, N_1, N_2, ... in call order.
C11_SameNameSuffixedInOrder ==
    \A N \in Range(calls) :
        LET I     == CallsOf(N)
            first == CHOOSE i \in I : \A k \in I : i <= k
            alone == \A k \in (first..Len(worksheets)) \ I :
                         ~IsOrLooksLike(worksheets[k].title, N)
        IN  (/\ _sanitize_tab_name(N) = N
             /\ \A k \in 1..(first - 1) : ~IsOrLooksLike(worksheets[k].title, N))
            => \A i \in I :
                 LET m == Cardinality({k \in I : k < i})
                     t == worksheets[i].title
                 IN  /\ m = 0 => t = N
                     /\ m > 0 => \E j \in 1..Len(worksheets) : t = Suffixed(N, j)
                     /\ \A k \in 1..(i - 1) : worksheets[k].title # t
                     /\ (m > 0 /\ alone) => t = Suffixed(N, m)

\* "Sheet", then "Sheet_1", then "Sheet" again: the third tab is Sheet_2
C11_Witness ==
    /\ calls = <<DefaultTitle, Suffixed(DefaultTitle, 1), DefaultTitle>>
    /\ worksheets[3].title = Suffixed(DefaultTitle, 2)

\* C12: _sanitize_tab_name is idempotent, and its result is non-empty, at
\* most 31 characters long and free of / \ ? * [ ].
C12_SanitizeIdempotent ==
    /\ snpc \in {"once", "twice"} =>
         /\ snOnce # <<>>
         /\ Len(snOnce) <= 31
         /\ Range(snOnce) \cap {"/", "\\", "?", "*", "[", "]"} = {}
    /\ snpc = "twice" => snTwice = snOnce

\* a name of 33 characters, all but the last forbidden
C12_Witness ==
    /\ snpc = "twice"
    /\ snName = Rep("/", 32) \o <<"y">>
    /\ snOnce = Rep("_", 31)
    /\ snTwice = snOnce

-----------------------------------------------------------------------------

\* the tab created by the last call
LastSheet == worksheets[Len(worksheets)]

\* the last call was create_tab (directly or through create_tab_from_csv_data)
\* with a non-empty row list
LastCallHadRows ==
    /\ lastCall.op \in {"create_tab", "create_tab_from_csv_data"}
    /\ lastCall.data # <<>>

\* the names in the header row of the tab created by the last call
LastHeader == [j \in 1..Len(LastSheet.rows[1]) |-> LastSheet.rows[1][j].v]

\* one row per record after the header, in input order: row i + 1 holds the
\* values of record i
OneRowPerRecord ==
    /\ Len(LastSheet.rows) = Len(lastCall.data) + 1
    /\ \A i \in 1..Len(lastCall.data) :
         \A p \in 1..Len(lastCall.data[i]) :
            \E j \in 1..Len(LastSheet.rows[i + 1]) :
                /\ LastSheet.rows[i + 1][j] = lastCall.data[i][p][2]
                /\ (lastCall.headers = <<>> => LastHeader[j] = lastCall.data[i][p][1])

\* C13 as claimed: header row, then one row per record in input order; the
\* header is the explicit headers when given and otherwise the keys of the
\* first row, also when later rows carry other keys.
C13_HeaderFromFirstRow ==
    LastCallHadRows =>
        /\ OneRowPerRecord
        /\ LastHeader = (IF lastCall.headers # <<>> THEN lastCall.headers
                         ELSE Keys(lastCall.data[1]))

\* where the key k first appears in the rows: <<row, position>>
FirstAppearance(data, k) ==
    LET places == UNION {{<<i, p>> : p \in {q \in 1..Len(data[i]) : data[i][q][1] = k}}
                         : i \in 1..Len(data)}
    IN  CHOOSE a \in places :
            \A b \in places : a[1] < b[1] \/ (a[1] = b[1] /\ a[2] <= b[2])

Earlier(a, b) == a[1] < b[1] \/ (a[1] = b[1] /\ a[2] < b[2])

\* C13 as amended: the header is the explicit headers when given and
\* otherwise the keys of all the rows, each once, in order of first
\* appearance (the keys of the first row when no later row adds a key).
C13_HeaderFromAllRows ==
    LastCallHadRows =>
        /\ OneRowPerRecord
        /\ lastCall.headers # <<>> => LastHeader = lastCall.headers
        /\ lastCall.headers = <<>> =>
             LET data == lastCall.data
                 allKeys == UNION {Range(Keys(data[i])) : i \in 1..Len(data)}
             IN  /\ Range(LastHeader) = allKeys
                 /\ Len(LastHeader) = Cardinality(allKeys)
                 /\ \A a, b \in 1..Len(LastHeader) :
                      a < b => Earlier(FirstAppearance(data, LastHeader[a]),
                                       FirstAppearance(data, LastHeader[b]))

\* two records, the second with a key the first lacks, and no explicit
\* headers: the header row is Key, Value, Extra
C13_Witness ==
    /\ lastCall.op = "create_tab" /\ lastCall.headers = <<>>
    /\ Len(lastCall.data) = 2
    /\ Len(LastSheet.rows) = 3
    /\ LastHeader = <<"Key", "Value", "Extra">>

\* C14: every cell of every tab is a text string, whichever entry point
\* wrote the rows and whatever the type of the source value.
C14_EveryCellIsText ==
    \A s \in 1..Len(worksheets) :
        \A r \in 1..Len(worksheets[s].rows) :
            \A c \in 1..Len(worksheets[s].rows[r]) :
                worksheets[s].rows[r][c].t = "str"

\* C15: create_tab with an empty row list adds exactly one tab, with a title
\* no other tab has, and writes no row into it, no header row either, also
\* when explicit headers were passed.
C15_EmptyRowsGiveEmptyTab ==
    (lastCall.op = "create_tab" /\ lastCall.data = <<>>) =>
        /\ Len(worksheets) = lastCall.before + 1
        /\ LastSheet.rows = <<>>
        /\ \A k \in 1..lastCall.before : worksheets[k].title # LastSheet.title

\* an empty row list with explicit headers, under a name already taken
C15_Witness ==
    /\ lastCall.op = "create_tab" /\ lastCall.data = <<>>
    /\ lastCall.headers = <<"Key", "Value">>
    /\ lastCall.before = 1 /\ Len(worksheets) = 2
    /\ worksheets[1].title = DefaultTitle
    /\ LastSheet = [title |-> Suffixed(DefaultTitle, 1), rows |-> <<>>]

\* C16: create_tab_from_key_value_pairs(name, d) adds exactly one tab; for a
\* non-empty d its rows are the header (Key, Value) and then one row
\* (key, str(value)) per entry of d in d's order; for an empty d it has no
\* rows.
C16_KeyValueRowsInOrder ==
    lastCall.op = "create_tab_from_key_value_pairs" =>
        LET d == lastCall.data
        IN  /\ Len(worksheets) = lastCall.before + 1
            /\ d = <<>> => LastSheet.rows = <<>>
            /\ d # <<>> =>
                 /\ Len(LastSheet.rows) = Len(d) + 1
                 /\ LastSheet.rows[1] = <<PStr("Key"), PStr("Value")>>
                 /\ \A i \in 1..Len(d) :
                      LastSheet.rows[i + 1] = <<PStr(d[i][1]), PStr(PyStr(d[i][2]))>>

\* {"id": "m", "downloads": 7}: the number 7 is written as the text "7"
C16_Witness ==
    /\ lastCall.op = "create_tab_from_key_value_pairs"
    /\ LastSheet.rows = << <<PStr("Key"), PStr("Value")>>,
                           <<PStr("id"), PStr("m")>>,
                           <<PStr("downloads"), PStr("7")>> >>

-----------------------------------------------------------------------------

\* the number of commas of a line
RECURSIVE Commas(_)
Commas(s) == IF s = <<>> THEN 0 ELSE (IF Head(s) = "," THEN 1 ELSE 0) + Commas(Tail(s))

IsBlank(raw)   == \A i \in 1..Len(raw) : raw[i] = " "
IsComment(raw) == ~IsBlank(raw) /\ Head(LStrip(raw)) = "#"
IsData(raw)    == ~IsBlank(raw) /\ ~IsComment(raw)

\* a well-formed line: one comma between two non-blank fields
IsWellFormed(raw) ==
    /\ IsData(raw) /\ Commas(raw) = 1
    /\ ~IsBlank(SubSeq(raw, 1, FirstComma(raw, 1) - 1))
    /\ ~IsBlank(SubSeq(raw, FirstComma(raw, 1) + 1, Len(raw)))

\* the pair of a well-formed line: its two fields without surrounding blanks
PairOf(raw) ==
    <<Strip(SubSeq(raw, 1, FirstComma(raw, 1) - 1)),
      Strip(SubSeq(raw, FirstComma(raw, 1) + 1, Len(raw)))>>

\* the pairs of the well-formed lines, in file order
RECURSIVE WellFormedPairs(_)
WellFormedPairs(lines) ==
    IF lines = <<>> THEN <<>>
    ELSE (IF IsWellFormed(Head(lines)) THEN <<PairOf(Head(lines))>> ELSE <<>>)
         \o WellFormedPairs(Tail(lines))

\* C17: for a file of blank lines, comment lines, lines without a comma and
\* well-formed lines, both parsers return the pairs of the well-formed lines,
\* one each, in file order: the other lines add nothing and stop nothing.
C17_OnePairPerWellFormedLine ==
    (/\ ppc = "both"
     /\ \A i \in 1..Len(mapFile) :
          \/ IsBlank(mapFile[i]) \/ IsComment(mapFile[i])
          \/ Commas(mapFile[i]) = 0 \/ IsWellFormed(mapFile[i]))
    => /\ parsedMain = WellFormedPairs(mapFile)
       /\ parsedArchive = WellFormedPairs(mapFile)

\* a line without a comma, a comment that holds a comma, then " a , b "
C17_Witness ==
    /\ ppc = "both"
    /\ mapFile = << <<"a", "b">>, <<"#", "a", ",", "b">>,
                    <<" ", "a", " ", ",", " ", "b", " ">> >>
    /\ parsedMain = << <<<<"a">>, <<"b">>>> >>
    /\ parsedArchive = parsedMain

\* C18: a line with more than two comma-separated fields yields no pair, in
\* read_model_list and in parse_model_mapping: a file whose data lines all
\* have more than two fields parses to no pair at all.
C18_ExtraFieldsAreSkipped ==
    (/\ ppc = "both"
     /\ \A i \in 1..Len(mapFile) : IsData(mapFile[i]) => Commas(mapFile[i]) > 1)
    => parsedMain = <<>> /\ parsedArchive = <<>>

-----------------------------------------------------------------------------

\* the records of the two drivers: process_model of main.py logs "model",
\* ModelProcessor.process_model logs "hf"
IsMainRecord(rec) == "model" \in DOMAIN rec

\* C19: an entry whose model metadata fetch failed leaves no file or tab, has
\* no owner query (no classification probe, no detail query) and no
\* repository query, is reported as failed (main.py prints the error,
\* ModelProcessor.process_model returns False), and the driver has gone on
\* past it.
C19_FailedModelFetchSkipsEntry ==
    \A i \in 1..Len(runlog) :
        LET rec == runlog[i]
        IN  IF IsMainRecord(rec)
            THEN ~rec.model =>
                    /\ ~rec.csv /\ ~rec.ownerQuery /\ ~rec.ghQuery
                    /\ rec.security = "none"
                    /\ rec.printed = "Error processing model"
                    /\ rec.ended = "returned" /\ idx > i
            ELSE ~rec.fetched =>
                    /\ rec.tabs = 0
                    /\ rec.probes = <<>> /\ rec.detail = "none"
                    /\ rec.gh = "skipped"
                    /\ ~rec.ret
                    /\ rec.ended = "returned" /\ idx > i

\* the pipeline on two entries: the first model fetch fails, the second
\* entry is processed in full and the workbook holds its tabs only
C19_Witness ==
    /\ Len(runlog) = 2 /\ ~IsMainRecord(runlog[1])
    /\ ~runlog[1].fetched /\ runlog[1].tabs = 0
    /\ runlog[2].fetched /\ runlog[2].gh = "ok" /\ runlog[2].tabs = 3
    /\ Len(worksheets) = 3

\* C20: the user endpoint is probed first and the organization endpoint only
\* after a 404 of the user probe; the owner is an organization exactly when
\* the user probe answered 404 and the organization probe 200; the
\* organization detail is queried iff it is, the user detail otherwise.
C20_OwnerClassification ==
    \A i \in 1..Len(runlog) :
        LET rec == runlog[i]
        IN  (~IsMainRecord(rec) /\ rec.fetched) =>
                LET user  == rec.probes[1]
                    isOrg == /\ user.status = "404"
                             /\ Len(rec.probes) = 2 /\ rec.probes[2].status = "200"
                IN  /\ Len(rec.probes) \in {1, 2}
                    /\ user.endpoint = "user"
                    /\ Len(rec.probes) = 2 <=> user.status = "404"
                    /\ Len(rec.probes) = 2 => rec.probes[2].endpoint = "org"
                    /\ rec.detail = (IF isOrg THEN "org" ELSE "user")
                    /\ rec.owner = "org" <=> isOrg

\* an owner that is no user (404) but an organization (200): its tab is
\* written next to the model's
C20_Witness ==
    /\ Len(runlog) = 1 /\ ~IsMainRecord(runlog[1])
    /\ runlog[1].probes = <<Probe("user", "404"), Probe("org", "200")>>
    /\ runlog[1].detail = "org"
    /\ Len(worksheets) >= 2
    /\ worksheets[2].title = <<"1">> \o OrgSuffix

-----------------------------------------------------------------------------

\* C21: every entry of the pipeline whose model fetch and owner detail fetch
\* both succeeded has added a model-info tab and an owner-info tab (at least
\* two tabs) and ModelProcessor.process_model has returned True for it; two
\* such entries leave at least 4 tabs.
C21_ModelAndOwnerTabsPerEntry ==
    /\ \A i \in 1..Len(runlog) :
         LET rec == runlog[i]
         IN  (~IsMainRecord(rec) /\ rec.fetched /\ rec.ownerInfo) =>
                 /\ rec.tabs >= 2
                 /\ rec.ended = "returned" /\ rec.ret
    /\ (/\ Len(runlog) = 2
        /\ \A i \in 1..2 : ~IsMainRecord(runlog[i]) /\ runlog[i].fetched /\ runlog[i].ownerInfo)
       => Len(worksheets) >= 4

-----------------------------------------------------------------------------

\* the rows of a report that satisfy a test
HasRow(rows, Test(_)) == \E i \in 1..Len(rows) : Test(rows[i])

\* the categories of the checklist's sections that follow the repository
\* core fetch, and the endpoint each one queries first
SectionCategory ==
    [e \in {"protection", "license", "workflows", "environments", "sbom",
            "code-scanning", "secret-scanning", "dependabot", "commits",
            "collaborators"} |->
        CASE e = "protection" -> "Branch Protection"
          [] e = "license" -> "Legal"
          [] e = "workflows" -> "Automation"
          [] e = "environments" -> "Deployments"
          [] e \in {"sbom", "dependabot"} -> "Dependencies"
          [] e \in {"code-scanning", "secret-scanning"} -> "Scanning"
          [] e = "commits" -> "Commits"
          [] OTHER -> "Access Control"]

\* C22: a security report that got past the repository core fetch holds at
\* least one row for every endpoint it queried afterwards, whether the query
\* succeeded or failed: in collect a row for the owner, the topics and the
\* languages; in the checklist a row for each section and each file search.
C22_EveryQueriedInsightHasARow ==
    /\ (secpc \in {"collected", "both"} /\ collectOut.ended = "rows") =>
          /\ HasRow(collectOut.rows, LAMBDA r : r.Scope = "Owner/Org")
          /\ HasRow(collectOut.rows, LAMBDA r : r.Key = "topics")
          /\ HasRow(collectOut.rows, LAMBDA r : r.Key = "languages")
    /\ (secpc = "both" /\ checklistOut.ended = "rows") =>
          /\ \A e \in DOMAIN SectionCategory :
                HasRow(checklistOut.rows, LAMBDA r : r.Category = SectionCategory[e])
          /\ HasRow(checklistOut.rows, LAMBDA r : r.Category = "Security Policy")
          /\ HasRow(checklistOut.rows, LAMBDA r : r.Category = "Governance")

\* the row of an endpoint answered with the API error a
IsUnavailableRow(r, a) ==
    r.Value = "unavailable" /\ r.Notes = ToString(a.code) \o ": " \o PyStr(a.err)

\* C23: for every endpoint that answered the checklist with a non-2xx API
\* error, the row of its insight has the value 'unavailable' and the status
\* code and message in its notes; so has the row of a file search whose
\* every probe was answered with an API error, and the owner row of collect
\* when the owner query was.
C23_ApiErrorGivesUnavailableRow ==
    /\ (secpc = "both" /\ checklistOut.ended = "rows") =>
          /\ \A e \in DOMAIN SectionCategory \cap ghWorld.failed :
                HasRow(checklistOut.rows,
                       LAMBDA r : r.Category = SectionCategory[e] /\ IsUnavailableRow(r, ApiError))
          /\ ghWorld.security = 0 =>
                HasRow(checklistOut.rows,
                       LAMBDA r : r.Category = "Security Policy" /\ IsUnavailableRow(r, ApiError))
          /\ ghWorld.codeowners = 0 =>
                HasRow(checklistOut.rows,
                       LAMBDA r : r.Category = "Governance" /\ IsUnavailableRow(r, ApiError))
    /\ (/\ secpc \in {"collected", "both"} /\ collectOut.ended = "rows"
        /\ {"orgs", "users"} \subseteq ghWorld.failed) =>
          HasRow(collectOut.rows, LAMBDA r : r.Scope = "Owner/Org" /\ r.Value = "unavailable")

-----------------------------------------------------------------------------

\* C24: a call never sleeps more than 3 times nor longer than 3 x 60 seconds
\* in all; when all 3 attempts were answered with a rate-limit response, no
\* fourth request is made, _req returns the last response and safe_get_json
\* returns the error triple (None, 403, message of that response).
C24_GivesUpAfterThreeRateLimits ==
    /\ sleeps.n <= 3 /\ sleeps.total <= 3 * 60
    /\ sleeps.n = 3 =>
          /\ requests = 3 /\ IsRateLimited(resp)
          /\ fpc \in {"resp", "done"}
          /\ fpc = "done" =>
                result = [k |-> "returned", json |-> "none", code |-> 403,
                          msg |-> ErrorMessage(resp)]

\* three rate-limit responses, each slept on for the full 60 seconds, and the
\* triple of the third returned
C24_Witness ==
    /\ fpc = "done" /\ sleeps.n = 3 /\ sleeps.total = 180 /\ requests = 3
    /\ result.code = 403 /\ result.json = "none" /\ result.msg = PStr("Not Found")

-----------------------------------------------------------------------------

\* C25: a save() whose write failed has ended by raising and returned no
\* path; a save() whose write succeeded has returned self.file_path, which
\* is the path __init__ computed and never changes; and no save() changes the
\* tabs of the workbook.
C25_SaveRaisesOrReturnsFixedPath ==
    /\ [](lastSave.write = "failed" =>
              lastSave.ret.ended = "raised" /\ lastSave.ret.path = "")
    /\ [](lastSave.write = "written" =>
              /\ lastSave.ret = [ended |-> "returned", path |-> file_path]
              /\ file_path \in {FilePath(t) : t \in TimestampInputs})
    /\ [][/\ file_path' = file_path
          /\ lastSave' # lastSave => worksheets' = worksheets]_vars

\* an exporter constructed at the later moment, with two tabs, whose last
\* save failed
C25_Witness ==
    /\ file_path = FilePath("20251231_235959")
    /\ Len(worksheets) = 2
    /\ lastSave.write = "failed" /\ lastSave.ret.ended = "raised"

-----------------------------------------------------------------------------

\* the providers in the order of the strategy, each with its source label
\* ("arxiv": the DOI resolution, which returns no count itself)
ProviderOrder == <<"semanticscholar", "openalex-arxiv", "arxiv", "openalex-doi">>

\* the provider at position p of ProviderOrder answers with an integer count
Yields(p) ==
    CASE p = 1 -> citWorld.ss.k = "count"
      [] p = 2 -> citWorld.oa.k = "count"
      [] p = 3 -> FALSE
      [] p = 4 -> citWorld.oad.k = "count"

YieldedCount(p) ==
    CASE p = 1 -> citWorld.ss.n [] p = 2 -> citWorld.oa.n [] OTHER -> citWorld.oad.n

\* the DOI lookup is possible: the arXiv API named a DOI
DoiResolved == citWorld.doi \notin {Null, PStr("")}

\* C26: the providers are queried in the order Semantic Scholar, OpenAlex by
\* arXiv id, arXiv DOI resolution, OpenAlex by DOI; once get_citation_count
\* has returned, the queries made are those up to the first provider that
\* yielded an integer and no later one, the result is that provider's count
\* (0 included) with its label, and it is (None, "") when none yielded.
C26_FirstProviderInOrderWins ==
    /\ Len(citQueries) <= 4
    /\ \A i \in 1..Len(citQueries) : citQueries[i] = ProviderOrder[i]
    /\ cpc = "done" =>
          LET asked  == Len(citQueries)
              winner == {p \in 1..asked : Yields(p)}
          IN  /\ \A p \in 1..(asked - 1) : ~Yields(p)
              /\ winner # {} =>
                    citResult = [count |-> PInt(YieldedCount(asked)),
                                 source |-> ProviderOrder[asked]]
              /\ winner = {} =>
                    /\ citResult = [count |-> Null, source |-> ""]
                    /\ asked = (IF DoiResolved THEN 4 ELSE 3)

\* Semantic Scholar has no count, OpenAlex knows the paper with 0 citations:
\* (0, "openalex-arxiv") is returned and the arXiv API is never asked
C26_Witness ==
    /\ cpc = "done"
    /\ citWorld.ss = RaisesAnswer /\ citWorld.oa = CountAnswer(0)
    /\ citWorld.oad = CountAnswer(5) /\ DoiResolved
    /\ citQueries = <<"semanticscholar", "openalex-arxiv">>
    /\ citResult = [count |-> PInt(0), source |-> "openalex-arxiv"]

-----------------------------------------------------------------------------

-----------------------------------------------------------------------------

\* C28: after k tab-creating calls the workbook has exactly k tabs, the i-th
\* titled after the name of the i-th call; each call adds one worksheet at
\* the end and leaves the worksheets before it (titles, order, rows) as they
\* were, and nothing else changes the worksheets.
C28_EachCallAppendsOneTab ==
    /\ [](/\ Len(worksheets) = Len(calls)
          /\ \A i \in 1..Len(calls) :
                IsOrLooksLike(worksheets[i].title, _sanitize_tab_name(calls[i])))
    /\ [][/\ calls' # calls =>
                /\ Len(calls') = Len(calls) + 1
                /\ Len(worksheets') = Len(worksheets) + 1
                /\ SubSeq(worksheets', 1, Len(worksheets)) = worksheets
          /\ worksheets' # worksheets => calls' # calls]_vars

\* three calls, one through each entry point, the last one
\* create_tab_from_csv_data: three tabs in call order, the earlier two intact
C28_Witness ==
    /\ calls = <<DefaultTitle, <<>>, DefaultTitle>>
    /\ lastCall.op = "create_tab_from_csv_data" /\ lastCall.data # <<>>
    /\ Len(worksheets) = 3
    /\ worksheets[1] = [title |-> DefaultTitle, rows |-> <<>>]
    /\ worksheets[2].title = Suffixed(DefaultTitle, 1)
    /\ Len(worksheets[2].rows) = 3
    /\ worksheets[3].title = Suffixed(DefaultTitle, 2)

-----------------------------------------------------------------------------
StatusOf(rec) == Get(rec, "status").v

\* the record at index i answers the mapping entry at index i
AnswersEntry(i) ==
    LET e  == model_mappings[i]
        hf == huggingface_results[i]
        gh == github_results[i]
    IN  /\ HasKey(hf, "status") /\ HasKey(gh, "status")
        /\ StatusOf(hf) \in {"success", "error"} /\ StatusOf(gh) \in {"success", "error"}
        /\ Get(hf, "model_id") = PStr(e.hf_id)
        /\ IF "/" \in Range(e.gh_id)
           THEN Get(gh, "owner").v \o "/" \o Get(gh, "repo").v = Join("", e.gh_id)
           ELSE Get(gh, "owner") = PStr("unknown") /\ StatusOf(gh) = "error"
        /\ e.info = "raises" => StatusOf(hf) = "error"
        /\ e.repo \in {"api_error", "raises"} => StatusOf(gh) = "error"

\* C29: query_all_models builds its two lists in step, one record per
\* mapping entry in mapping order, and returns them with one record for
\* every entry; a model query that failed, a repository query that failed
\* and a repository id without '/' each leave a record with status 'error'
\* at their index
C29_OneRecordPerEntryAligned ==
    /\ Len(huggingface_results) = Len(github_results)
    /\ Len(huggingface_results) <= Len(model_mappings)
    /\ qpc = "returned" => Len(huggingface_results) = Len(model_mappings)
    /\ \A i \in 1..Len(huggingface_results) : AnswersEntry(i)

\* a returned call on two entries: the first with a failed model query and
\* an id without '/', the second with a failed repository query
C29_Witness ==
    /\ qpc = "returned" /\ Len(model_mappings) = 2
    /\ model_mappings[1].info = "raises" /\ model_mappings[1].repo = "unqueried"
    /\ model_mappings[2].info = "info" /\ model_mappings[2].repo = "api_error"
    /\ model_mappings[1].hf_id # model_mappings[2].hf_id
    /\ StatusOf(huggingface_results[1]) = "error"
    /\ StatusOf(github_results[1]) = "error"
    /\ StatusOf(huggingface_results[2]) = "success"
    /\ Get(github_results[2], "error_message") = PStr("Failed to fetch repo: 404 Not Found")

-----------------------------------------------------------------------------
\* the cell of the sheet's first data row under the column named in its
\* header row
CellUnder(sheet, column) ==
    sheet.rows[2][CHOOSE c \in 1..Len(sheet.rows[1]) : sheet.rows[1][c] = PStr(column)]

CountColumns == {"members_count", "models_count", "datasets_count", "spaces_count"}

\* C30: get_all_org_info returns a non-empty dict however the five
\* organization endpoints answer, so every entry whose owner was classified
\* as an organization got its organization tab; when all five endpoints
\* failed that tab holds one row with the organization name and the four
\* counts equal to 0
C30_OrgTabEvenWhenAllQueriesFail ==
    /\ \A ow \in OrgWorlds : get_all_org_info(OwnerName, ow) # <<>>
    /\ \A i \in 1..Len(runlog) :
          runlog[i].detail = "org" =>
              /\ runlog[i].owner = "org" /\ runlog[i].ownerInfo
              /\ \E j \in 1..Len(worksheets) :
                    /\ worksheets[j].title = Digits(i) \o OrgSuffix
                    /\ runlog[i].orgFailed =>
                          /\ Len(worksheets[j].rows) = 2
                          /\ Len(worksheets[j].rows[1]) = 5
                          /\ CellUnder(worksheets[j], "org_name") = PStr(OwnerName)
                          /\ \A c \in CountColumns :
                                PyStr(CellUnder(worksheets[j], c)) = "0"

\* the second entry's owner is an organization none of whose endpoints
\* answered, and its tab is in the workbook
C30_Witness ==
    /\ Len(runlog) = 2
    /\ runlog[2].detail = "org" /\ runlog[2].orgFailed /\ runlog[2].hf
    /\ ~runlog[1].orgFailed
    /\ \E j \in 1..Len(worksheets) :
          /\ worksheets[j].title = Digits(2) \o OrgSuffix
          /\ CellUnder(worksheets[j], "members_count") = PInt(0)

====
